---- MODULE Spec2Model ----
(***************************************************************************)
(* RamSim: the per-step state-transition engine of RamSimEnv               *)
(* (src/src/ramsim/environment.py).                                        *)
(*                                                                         *)
(* Numbers.  Every float of the program (ram, cpu, priority, state code,   *)
(* telemetry) is a fixed-point integer counting units of 1/Scale, where    *)
(* Scale = 100 * 2^HalveDepth: all literals of the source are hundredths,  *)
(* and the only operation that leaves the hundredths grid is the halving   *)
(* of ram by Suspend, which stays exact for HalveDepth nested halvings.    *)
(* Comparisons such as state == 0.3 are modelled as the float32            *)
(* comparisons NumPy >= 2 performs (both sides rounded to float32), so a   *)
(* state code read back from the table equals the literal it was written   *)
(* from.  Rewards count units of 1/Scale as well.                          *)
(***************************************************************************)
EXTENDS Integers, Sequences, FiniteSets, TLC

\* ------------------------------------------------------------------ bounds
MaxK == 2            \* the constructor's k ranges over 1..MaxK
MaxSlotSteps == 4    \* an episode is explored while k * current_step <= MaxSlotSteps
HalveDepth == 3      \* binary digits kept below one hundredth
UniformSteps == 1    \* a uniform draw takes the quantiles 0/UniformSteps .. UniformSteps/UniformSteps
MaxPairSteps == 1    \* steps per episode when several instances run side by side

Sub == 2 ^ HalveDepth
Scale == 100 * Sub
Pct(n) == n * Sub    \* n hundredths, in units of 1/Scale
R(n) == n * Scale    \* the reward n, in units of 1/Scale

\* ------------------------------------------------------------ state codes
Running == Pct(100)
Suspended == Pct(60)
Swapped == Pct(30)
Killed == 0
StateCodes == {Running, Suspended, Swapped, Killed}

Proc(ram, cpu, priority, state) ==
  [ram |-> ram, cpu |-> cpu, priority |-> priority, state |-> state]
Zero == Proc(0, 0, 0, 0)

Min(a, b) == IF a < b THEN a ELSE b
Max(a, b) == IF a > b THEN a ELSE b
Clip(x, lo, hi) == Min(Max(x, lo), hi)

Slots(n) == 1..n
ZeroTable(n) == [i \in Slots(n) |-> Zero]

\* ------------------------------------------------------- the random source
\* The program draws every random number from NumPy's global generator
\* (np.random.*), a deterministic stream whose starting state is unknown.
\* The stream is a cyclic tape of samples of [0, 1), in hundredths; the state
\* of the generator is the position on the tape, and every draw of the source
\* reads one sample and moves one position on, in the order the code draws.
Tape ==
  << 70,  1, 40, 90,  3, 97, 40, 70,  1, 90, 40,  3,
     97, 70, 40,  1, 90, 70,  3, 40, 97,  1, 70, 90 >>
Period == Len(Tape)
Sample(pos) == Tape[(pos % Period) + 1]
Advance(pos, n) == (pos + n) % Period

\* np.random.uniform(lo, hi) from sample u (lo, hi in hundredths): the sample
\* is rounded down to a quantile of the range
Uniform(lo, hi, u) ==
  Pct(lo) + (((u * (UniformSteps + 1)) \div 100) * (Pct(hi) - Pct(lo))) \div UniformSteps
\* np.random.randint(0, n) from sample u
RandInt(n, u) == (u * n) \div 100
\* np.random.rand() < pct/100 from sample u
RandBelow(u, pct) == u < pct

HeavyProfile == "heavy"
LeakyProfile == "leaky"
ActiveProfile == "active"
IdleProfile == "idle"
Profiles == {HeavyProfile, LeakyProfile, ActiveProfile, IdleProfile}

\* np.random.choice(['idle', 'active', 'heavy', 'leaky'], p=[0.5, 0.3, 0.15, 0.05])
Choice(u) ==
  IF u < 50 THEN IdleProfile
  ELSE IF u < 80 THEN ActiveProfile
  ELSE IF u < 95 THEN HeavyProfile
  ELSE LeakyProfile

\* the profile generators of reset: a Running record from three samples
ResetProfile(profile, u1, u2, u3) ==
  CASE profile = HeavyProfile ->
         Proc(Uniform(40, 60, u1), Uniform(60, 90, u2), Uniform(70, 100, u3), Running)
    [] profile = LeakyProfile ->
         Proc(Uniform(60, 80, u1), Uniform(0, 5, u2), Uniform(0, 20, u3), Running)
    [] profile = ActiveProfile ->
         Proc(Uniform(10, 40, u1), Uniform(20, 50, u2), Uniform(40, 70, u3), Running)
    [] OTHER ->
         Proc(Uniform(1, 5, u1), Uniform(0, 2, u2), Uniform(10, 40, u3), Running)

\* the profile generators of _spawn_new_process
SpawnProfile(profile, u1, u2, u3) ==
  CASE profile = HeavyProfile ->
         Proc(Uniform(40, 60, u1), Uniform(60, 90, u2), Uniform(70, 100, u3), Running)
    [] profile = LeakyProfile ->
         Proc(Uniform(30, 50, u1), Uniform(0, 5, u2), Uniform(0, 20, u3), Running)
    [] profile = ActiveProfile ->
         Proc(Uniform(10, 40, u1), Uniform(20, 50, u2), Uniform(40, 70, u3), Running)
    [] OTHER ->
         Proc(Uniform(1, 5, u1), Uniform(0, 2, u2), Uniform(10, 40, u3), Running)

\* --------------------------------------------------------------- telemetry
Sum(f, n) ==
  LET S[i \in 0..n] == IF i = 0 THEN 0 ELSE S[i - 1] + f[i] IN S[n]

BaseOsLoad == Pct(10)
TotalRam(pt, n) == Sum([i \in Slots(n) |-> pt[i].ram], n) + BaseOsLoad
TotalCpu(pt, n) == Clip(Sum([i \in Slots(n) |-> pt[i].cpu], n), 0, Scale)

\* 1 / (1 + exp(-x)) at x = -8 .. 8, in thousandths
SigmoidTable ==
  << 0, 1, 2, 7, 18, 47, 119, 269, 500, 731, 881, 953, 982, 993, 998, 999, 1000 >>
SigmoidAt(x) == SigmoidTable[Clip(x, -8, 8) + 9]

\* page_fault = 1 / (1 + np.exp(-(total_ram_usage - 0.8) * 10)) in units of
\* 1/Scale: the table above, interpolated linearly between its points
PageFault(total_ram_usage) ==
  LET x == (total_ram_usage - Pct(80)) \div Pct(10)
      rest == (total_ram_usage - Pct(80)) % Pct(10)
      thousandths == SigmoidAt(x) + ((SigmoidAt(x + 1) - SigmoidAt(x)) * rest) \div Pct(10)
  IN (thousandths * Scale) \div 1000

\* the telemetry block of reset; power counts units of 1/(10*Scale):
\* raw_power/200 = 0.25 + cpu/2 + ram/5
ResetStats(pt, n) ==
  LET base_os_load == Pct(10)
      total_cpu_usage == Clip(Sum([i \in Slots(n) |-> pt[i].cpu], n), 0, Scale)
      total_ram_usage == Sum([i \in Slots(n) |-> pt[i].ram], n) + base_os_load
  IN [ram_usage |-> Clip(total_ram_usage, 0, Scale),
      cpu_usage |-> total_cpu_usage,
      page_fault |-> PageFault(total_ram_usage),
      swap_usage |-> Clip(Max(0, total_ram_usage - Scale), 0, Scale),
      power |-> Clip((5 * Scale) \div 2 + 5 * total_cpu_usage + 2 * total_ram_usage,
                     0, 10 * Scale)]

\* a faulty _update_system_stats, which reports total_ram_usage unclipped
update_system_stats_unclipped(pt, n) ==
  [ram_usage |-> TotalRam(pt, n),
   cpu_usage |-> TotalCpu(pt, n),
   page_fault |-> PageFault(TotalRam(pt, n)),
   swap_usage |-> Clip(Max(0, TotalRam(pt, n) - Scale), 0, Scale),
   power |-> Clip((5 * Scale) \div 2 + 5 * TotalCpu(pt, n) + 2 * TotalRam(pt, n),
                  0, 10 * Scale)]

\* _update_system_stats; power counts units of 1/(10*Scale)
update_system_stats(pt, n) ==
  LET total_cpu_usage == TotalCpu(pt, n)
      total_ram_usage == TotalRam(pt, n)
  IN [ram_usage |-> Clip(total_ram_usage, 0, Scale),
      cpu_usage |-> total_cpu_usage,
      page_fault |-> PageFault(total_ram_usage),
      swap_usage |-> Clip(Max(0, total_ram_usage - Scale), 0, Scale),
      power |-> Clip((5 * Scale) \div 2 + 5 * total_cpu_usage + 2 * total_ram_usage,
                     0, 10 * Scale)]

ZeroStats ==
  [ram_usage |-> 0, cpu_usage |-> 0, page_fault |-> 0, swap_usage |-> 0, power |-> 0]

\* ---------------------------------------------------------------- handlers
\* A handler takes the process table pt, the swap backups sw, the telemetry ss
\* as it stands when the handler runs and the slot index i; it yields the new
\* table, the new backups and the local reward r.
Result(pt, sw, r) == [pt |-> pt, sw |-> sw, r |-> r]

\* a faulty Kill, which wipes the backup of the next slot instead of its own
handle_kill_wipes_next_backup(pt, sw, ss, i) ==
  LET p == pt[i]
      next == (i % Len(sw)) + 1
  IN
  IF p.state # Killed
    THEN Result([pt EXCEPT ![i] = Zero], [sw EXCEPT ![next] = Zero],
                IF p.ram > Pct(40) /\ p.priority > Pct(60) THEN R(-10)
                ELSE IF p.ram > Pct(40) /\ p.priority <= Pct(20) /\ p.cpu < Pct(10)
                  THEN R(20)
                ELSE R(-2))
    ELSE Result(pt, sw, R(-1))

\* a faulty Kill, which rates a Swapped slot by what its backup holds
handle_kill_reads_backup(pt, sw, ss, i) ==
  LET p == IF pt[i].state = Swapped THEN sw[i] ELSE pt[i] IN
  IF pt[i].state # Killed
    THEN Result([pt EXCEPT ![i] = Zero], [sw EXCEPT ![i] = Zero],
                IF p.ram > Pct(40) /\ p.priority > Pct(60) THEN R(-10)
                ELSE IF p.ram > Pct(40) /\ p.priority <= Pct(20) /\ p.cpu < Pct(10)
                  THEN R(20)
                ELSE R(-2))
    ELSE Result(pt, sw, R(-1))

\* a faulty Kill, whose +20 case does not look at cpu
handle_kill_ignores_cpu(pt, sw, ss, i) ==
  LET p == pt[i] IN
  IF p.state # Killed
    THEN Result([pt EXCEPT ![i] = Zero], [sw EXCEPT ![i] = Zero],
                IF p.ram > Pct(40) /\ p.priority > Pct(60) THEN R(-10)
                ELSE IF p.ram > Pct(40) /\ p.priority <= Pct(20) THEN R(20)
                ELSE R(-2))
    ELSE Result(pt, sw, R(-1))

\* a faulty Kill, which zeroes the slot and forgets the backup
handle_kill_keeps_backup(pt, sw, ss, i) ==
  LET p == pt[i] IN
  IF p.state # Killed
    THEN Result([pt EXCEPT ![i] = Zero], sw,
                IF p.ram > Pct(40) /\ p.priority > Pct(60) THEN R(-10)
                ELSE IF p.ram > Pct(40) /\ p.priority <= Pct(20) /\ p.cpu < Pct(10)
                  THEN R(20)
                ELSE R(-2))
    ELSE Result(pt, sw, R(-1))

handle_kill(pt, sw, ss, i) ==
  LET p == pt[i] IN
  IF p.state # Killed
    THEN Result([pt EXCEPT ![i] = Zero], [sw EXCEPT ![i] = Zero],
                IF p.ram > Pct(40) /\ p.priority > Pct(60) THEN R(-10)
                ELSE IF p.ram > Pct(40) /\ p.priority <= Pct(20) /\ p.cpu < Pct(10)
                  THEN R(20)
                ELSE R(-2))
    ELSE Result(pt, sw, R(-1))

\* a faulty Swap-out, whose base reward is 2 whatever the state
handle_swap_out_flat_base(pt, sw, ss, i) ==
  LET p == pt[i] IN
  IF p.state = Swapped THEN Result(pt, sw, R(-2))
  ELSE IF p.state = Killed THEN Result(pt, sw, R(-5))
  ELSE Result([pt EXCEPT ![i] = Proc(0, 0, p.priority, Swapped)],
              [sw EXCEPT ![i] = p],
              R(2) + (IF ss.ram_usage >= Pct(80) THEN R(10) ELSE 0))

\* a faulty Swap-out, which zeroes the priority along with ram and cpu
handle_swap_out_drops_priority(pt, sw, ss, i) ==
  LET p == pt[i] IN
  IF p.state = Swapped THEN Result(pt, sw, R(-2))
  ELSE IF p.state = Killed THEN Result(pt, sw, R(-5))
  ELSE Result([pt EXCEPT ![i] = Proc(0, 0, 0, Swapped)],
              [sw EXCEPT ![i] = p],
              (IF p.state = Suspended THEN R(5) ELSE R(2))
                + (IF ss.ram_usage >= Pct(80) THEN R(10) ELSE 0))

handle_swap_out(pt, sw, ss, i) ==
  LET p == pt[i] IN
  IF p.state = Swapped THEN Result(pt, sw, R(-2))
  ELSE IF p.state = Killed THEN Result(pt, sw, R(-5))
  ELSE Result([pt EXCEPT ![i] = Proc(0, 0, p.priority, Swapped)],
              [sw EXCEPT ![i] = p],
              (IF p.state = Suspended THEN R(5) ELSE R(2))
                + (IF ss.ram_usage >= Pct(80) THEN R(10) ELSE 0))

\* a faulty Swap-in, which gives the slot the state its backup recorded
handle_swap_in_restores_state(pt, sw, ss, i) ==
  LET p == pt[i]
      backup == sw[i]
      predicted_ram_usage == ss.ram_usage + backup.ram
  IN
  IF p.state # Swapped THEN Result(pt, sw, R(-2))
  ELSE IF predicted_ram_usage > Scale THEN Result(pt, sw, R(-10))
  ELSE Result([pt EXCEPT ![i] = backup],
              [sw EXCEPT ![i] = Zero],
              backup.priority * 5
                - (IF predicted_ram_usage >= Pct(80) THEN R(15) ELSE 0))

\* a faulty Swap-in, which has no out-of-memory guard
handle_swap_in_unguarded(pt, sw, ss, i) ==
  LET p == pt[i]
      backup == sw[i]
      predicted_ram_usage == ss.ram_usage + backup.ram
  IN
  IF p.state # Swapped THEN Result(pt, sw, R(-2))
  ELSE Result([pt EXCEPT ![i] = Proc(backup.ram, backup.cpu, backup.priority, Running)],
              [sw EXCEPT ![i] = Zero],
              backup.priority * 5
                - (IF predicted_ram_usage >= Pct(80) THEN R(15) ELSE 0))

\* a faulty Swap-in, which restores ram and cpu and keeps the slot's priority
handle_swap_in_keeps_priority(pt, sw, ss, i) ==
  LET p == pt[i]
      backup == sw[i]
      predicted_ram_usage == ss.ram_usage + backup.ram
  IN
  IF p.state # Swapped THEN Result(pt, sw, R(-2))
  ELSE IF predicted_ram_usage > Scale THEN Result(pt, sw, R(-10))
  ELSE Result([pt EXCEPT ![i] = Proc(backup.ram, backup.cpu, p.priority, Running)],
              [sw EXCEPT ![i] = Zero],
              backup.priority * 5
                - (IF predicted_ram_usage >= Pct(80) THEN R(15) ELSE 0))

\* a faulty Swap-in, whose guard leaves the backup's ram out of the prediction
handle_swap_in_guard_without_backup(pt, sw, ss, i) ==
  LET p == pt[i]
      backup == sw[i]
      predicted_ram_usage == ss.ram_usage + backup.ram
  IN
  IF p.state # Swapped THEN Result(pt, sw, R(-2))
  ELSE IF ss.ram_usage > Scale THEN Result(pt, sw, R(-10))
  ELSE Result([pt EXCEPT ![i] = Proc(backup.ram, backup.cpu, backup.priority, Running)],
              [sw EXCEPT ![i] = Zero],
              backup.priority * 5
                - (IF predicted_ram_usage >= Pct(80) THEN R(15) ELSE 0))

handle_swap_in(pt, sw, ss, i) ==
  LET p == pt[i]
      backup == sw[i]
      predicted_ram_usage == ss.ram_usage + backup.ram
  IN
  IF p.state # Swapped THEN Result(pt, sw, R(-2))
  ELSE IF predicted_ram_usage > Scale THEN Result(pt, sw, R(-10))
  ELSE Result([pt EXCEPT ![i] = Proc(backup.ram, backup.cpu, backup.priority, Running)],
              [sw EXCEPT ![i] = Zero],
              backup.priority * 5
                - (IF predicted_ram_usage >= Pct(80) THEN R(15) ELSE 0))

\* a faulty Suspend, which suspends a Swapped slot too
handle_suspend_swapped(pt, sw, ss, i) ==
  LET p == pt[i] IN
  IF p.state = Suspended THEN Result(pt, sw, R(-2))
  ELSE IF p.state = Killed THEN Result(pt, sw, R(-5))
  ELSE Result([pt EXCEPT ![i] = Proc(p.ram \div 2, 0, p.priority, Suspended)],
              sw,
              (IF p.ram > Pct(40) THEN R(5) ELSE 0)
                + (IF ss.ram_usage >= Pct(80) THEN R(10) ELSE 0)
                - (IF p.priority > Pct(60) THEN R(12) ELSE 0))

\* a faulty Suspend, which suspends a slot that is Suspended already
handle_suspend_again(pt, sw, ss, i) ==
  LET p == pt[i] IN
  IF p.state = Swapped THEN Result(pt, sw, R(-3))
  ELSE IF p.state = Killed THEN Result(pt, sw, R(-5))
  ELSE Result([pt EXCEPT ![i] = Proc(p.ram \div 2, 0, p.priority, Suspended)],
              sw,
              (IF p.ram > Pct(40) THEN R(5) ELSE 0)
                + (IF ss.ram_usage >= Pct(80) THEN R(10) ELSE 0)
                - (IF p.priority > Pct(60) THEN R(12) ELSE 0))

\* ram *= 0.5 is exact in floating point; here it is exact while ram is even,
\* which HalveDepth guarantees within the explored depth (see HalvingExact).
handle_suspend(pt, sw, ss, i) ==
  LET p == pt[i] IN
  IF p.state = Suspended THEN Result(pt, sw, R(-2))
  ELSE IF p.state = Swapped THEN Result(pt, sw, R(-3))
  ELSE IF p.state = Killed THEN Result(pt, sw, R(-5))
  ELSE Result([pt EXCEPT ![i] = Proc(p.ram \div 2, 0, p.priority, Suspended)],
              sw,
              (IF p.ram > Pct(40) THEN R(5) ELSE 0)
                + (IF ss.ram_usage >= Pct(80) THEN R(10) ELSE 0)
                - (IF p.priority > Pct(60) THEN R(12) ELSE 0))

\* a faulty Resume, whose guard adds only the ram that resuming brings back
handle_resume_adds_half(pt, sw, ss, i) ==
  LET p == pt[i]
      original_ram == p.ram * 2
      predicted_ram_usage == ss.ram_usage + p.ram
  IN
  IF p.state # Suspended THEN Result(pt, sw, R(-2))
  ELSE IF predicted_ram_usage > Scale THEN Result(pt, sw, R(-10))
  ELSE Result([pt EXCEPT ![i] = Proc(original_ram, Pct(20), p.priority, Running)],
              sw,
              p.priority * 5
                - (IF predicted_ram_usage >= Pct(80) THEN R(15) ELSE 0))

\* a faulty Resume, which has no out-of-memory guard
handle_resume_unguarded(pt, sw, ss, i) ==
  LET p == pt[i]
      original_ram == p.ram * 2
      predicted_ram_usage == ss.ram_usage + original_ram
  IN
  IF p.state # Suspended THEN Result(pt, sw, R(-2))
  ELSE Result([pt EXCEPT ![i] = Proc(original_ram, Pct(20), p.priority, Running)],
              sw,
              p.priority * 5
                - (IF predicted_ram_usage >= Pct(80) THEN R(15) ELSE 0))

handle_resume(pt, sw, ss, i) ==
  LET p == pt[i]
      original_ram == p.ram * 2
      predicted_ram_usage == ss.ram_usage + original_ram
  IN
  IF p.state # Suspended THEN Result(pt, sw, R(-2))
  ELSE IF predicted_ram_usage > Scale THEN Result(pt, sw, R(-10))
  ELSE Result([pt EXCEPT ![i] = Proc(original_ram, Pct(20), p.priority, Running)],
              sw,
              p.priority * 5
                - (IF predicted_ram_usage >= Pct(80) THEN R(15) ELSE 0))

\* a faulty Renice-decrease, which lowers the priority in the backup as well
handle_renice_decrease_through_backup(pt, sw, ss, i) ==
  LET p == pt[i] IN
  IF p.state = Killed THEN Result(pt, sw, R(-5))
  ELSE IF p.priority <= Pct(10) THEN Result(pt, sw, R(-2))
  ELSE Result([pt EXCEPT ![i].priority = Clip(p.priority - Pct(20), 0, Scale)],
              IF p.state = Swapped
                THEN [sw EXCEPT ![i].priority = Clip(p.priority - Pct(20), 0, Scale)]
                ELSE sw,
              IF p.ram > Pct(60) /\ p.cpu < Pct(5) THEN R(10)
              ELSE IF p.priority > Pct(60) /\ p.cpu > Pct(40) THEN R(-8)
              ELSE 0)

\* a faulty Renice-decrease, which still lowers a priority of exactly 0.1
handle_renice_decrease_floor_strict(pt, sw, ss, i) ==
  LET p == pt[i] IN
  IF p.state = Killed THEN Result(pt, sw, R(-5))
  ELSE IF p.priority < Pct(10) THEN Result(pt, sw, R(-2))
  ELSE Result([pt EXCEPT ![i].priority = Clip(p.priority - Pct(20), 0, Scale)],
              sw,
              IF p.ram > Pct(60) /\ p.cpu < Pct(5) THEN R(10)
              ELSE IF p.priority > Pct(60) /\ p.cpu > Pct(40) THEN R(-8)
              ELSE 0)

handle_renice_decrease(pt, sw, ss, i) ==
  LET p == pt[i] IN
  IF p.state = Killed THEN Result(pt, sw, R(-5))
  ELSE IF p.priority <= Pct(10) THEN Result(pt, sw, R(-2))
  ELSE Result([pt EXCEPT ![i].priority = Clip(p.priority - Pct(20), 0, Scale)],
              sw,
              IF p.ram > Pct(60) /\ p.cpu < Pct(5) THEN R(10)
              ELSE IF p.priority > Pct(60) /\ p.cpu > Pct(40) THEN R(-8)
              ELSE 0)

\* a faulty Renice-increase, which refuses only at priority 1.0
handle_renice_increase_late_cap(pt, sw, ss, i) ==
  LET p == pt[i] IN
  IF p.state = Killed THEN Result(pt, sw, R(-5))
  ELSE IF p.priority >= Scale THEN Result(pt, sw, R(-2))
  ELSE Result([pt EXCEPT ![i].priority = Clip(p.priority + Pct(20), 0, Scale)],
              sw,
              IF p.cpu > Pct(50) THEN R(10)
              ELSE IF p.priority < Pct(20) /\ p.ram < Pct(10) THEN R(-8)
              ELSE 0)

\* a faulty Renice-increase, which does not look at the state of the slot
handle_renice_increase_any_state(pt, sw, ss, i) ==
  LET p == pt[i] IN
  IF p.priority >= Pct(95) THEN Result(pt, sw, R(-2))
  ELSE Result([pt EXCEPT ![i].priority = Clip(p.priority + Pct(20), 0, Scale)],
              sw,
              IF p.cpu > Pct(50) THEN R(10)
              ELSE IF p.priority < Pct(20) /\ p.ram < Pct(10) THEN R(-8)
              ELSE 0)

handle_renice_increase(pt, sw, ss, i) ==
  LET p == pt[i] IN
  IF p.state = Killed THEN Result(pt, sw, R(-5))
  ELSE IF p.priority >= Pct(95) THEN Result(pt, sw, R(-2))
  ELSE Result([pt EXCEPT ![i].priority = Clip(p.priority + Pct(20), 0, Scale)],
              sw,
              IF p.cpu > Pct(50) THEN R(10)
              ELSE IF p.priority < Pct(20) /\ p.ram < Pct(10) THEN R(-8)
              ELSE 0)

\* a faulty No-op, which charges a penalty
handle_noop_penalised(pt, sw, ss, i) == Result(pt, sw, R(-1))

handle_noop(pt, sw, ss, i) == Result(pt, sw, 0)

ActionCodes == 0..7

\* self.handlers[process_action](i)
handlers(code, pt, sw, ss, i) ==
  CASE code = 0 -> handle_kill(pt, sw, ss, i)
    [] code = 1 -> handle_swap_out(pt, sw, ss, i)
    [] code = 2 -> handle_swap_in(pt, sw, ss, i)
    [] code = 3 -> handle_suspend(pt, sw, ss, i)
    [] code = 4 -> handle_resume(pt, sw, ss, i)
    [] code = 5 -> handle_renice_increase(pt, sw, ss, i)
    [] code = 6 -> handle_renice_decrease(pt, sw, ss, i)
    [] code = 7 -> handle_noop(pt, sw, ss, i)

\* a faulty handler loop, which recomputes the telemetry before every handler
HandlerPhase_fresh_stats(pt, sw, ss, act, n) ==
  LET H[i \in 0..n] ==
        IF i = 0 THEN Result(pt, sw, 0)
        ELSE LET h == handlers(act[i], H[i - 1].pt, H[i - 1].sw,
                               update_system_stats(H[i - 1].pt, n), i)
             IN Result(h.pt, h.sw, H[i - 1].r + h.r)
  IN H[n]

\* the handler loop of step: slots 1..n in ascending order, every handler
\* reading the same telemetry ss, the local rewards summed
HandlerPhase(pt, sw, ss, act, n) ==
  LET H[i \in 0..n] ==
        IF i = 0 THEN Result(pt, sw, 0)
        ELSE LET h == handlers(act[i], H[i - 1].pt, H[i - 1].sw, ss, i)
             IN Result(h.pt, h.sw, H[i - 1].r + h.r)
  IN H[n]

\* ----------------------------------------------------------------- dynamics
\* a faulty dynamics body, whose cpu jitter is not clipped
DynamicsSlot_unclipped(p, u_cpu, u_ram, u_die) ==
  IF RandBelow(u_die, 2) THEN Zero
  ELSE [p EXCEPT
          !.cpu = p.cpu + Uniform(-5, 5, u_cpu),
          !.ram = IF p.ram > Pct(60) /\ p.cpu < Pct(10)
                    THEN Clip(p.ram + Uniform(1, 6, u_ram), 0, Scale)
                    ELSE Clip(p.ram + Uniform(-2, 2, u_ram), Pct(1), Pct(95))]

\* a faulty dynamics body, whose ram jitter is capped at 1.0 like the leak
DynamicsSlot_jitter_cap_one(p, u_cpu, u_ram, u_die) ==
  IF RandBelow(u_die, 2) THEN Zero
  ELSE [p EXCEPT
          !.cpu = Clip(p.cpu + Uniform(-5, 5, u_cpu), Pct(1), Pct(95)),
          !.ram = IF p.ram > Pct(60) /\ p.cpu < Pct(10)
                    THEN Clip(p.ram + Uniform(1, 6, u_ram), 0, Scale)
                    ELSE Clip(p.ram + Uniform(-2, 2, u_ram), Pct(1), Scale)]

\* the body of the loop of _apply_process_dynamics for a Running record p:
\* samples for cpu_jitter, for leak_amount or ram_jitter, and for the 2% death
DynamicsSlot(p, u_cpu, u_ram, u_die) ==
  IF RandBelow(u_die, 2) THEN Zero
  ELSE [p EXCEPT
          !.cpu = Clip(p.cpu + Uniform(-5, 5, u_cpu), Pct(1), Pct(95)),
          !.ram = IF p.ram > Pct(60) /\ p.cpu < Pct(10)
                    THEN Clip(p.ram + Uniform(1, 6, u_ram), 0, Scale)
                    ELSE Clip(p.ram + Uniform(-2, 2, u_ram), Pct(1), Pct(95))]

\* a faulty dynamics pass, which evolves every slot that is not Killed
apply_process_dynamics_all_live(pt, n, pos) ==
  LET D[i \in 0..n] ==
        IF i = 0 THEN [pt |-> pt, rng |-> pos]
        ELSE LET prev == D[i - 1] IN
             IF prev.pt[i].state # Killed
               THEN [pt |-> [prev.pt EXCEPT ![i] =
                               DynamicsSlot(prev.pt[i], Sample(prev.rng),
                                            Sample(prev.rng + 1), Sample(prev.rng + 2))],
                     rng |-> Advance(prev.rng, 3)]
               ELSE prev
  IN D[n]

\* _apply_process_dynamics: slots in ascending order, three draws per Running slot
apply_process_dynamics(pt, n, pos) ==
  LET D[i \in 0..n] ==
        IF i = 0 THEN [pt |-> pt, rng |-> pos]
        ELSE LET prev == D[i - 1] IN
             IF prev.pt[i].state = Running
               THEN [pt |-> [prev.pt EXCEPT ![i] =
                               DynamicsSlot(prev.pt[i], Sample(prev.rng),
                                            Sample(prev.rng + 1), Sample(prev.rng + 2))],
                     rng |-> Advance(prev.rng, 3)]
               ELSE prev
  IN D[n]

\* a faulty spawn body, which draws and never spawns
SpawnSlot_never(p, pos) == [p |-> p, rng |-> Advance(pos, 1)]

\* the body of the loop of _spawn_new_process for a Killed slot: one draw for
\* the 5% chance and, on a spawn, one for the profile and three for its fields
SpawnSlot(p, pos) ==
  IF RandBelow(Sample(pos), 5)
    THEN [p |-> SpawnProfile(Choice(Sample(pos + 1)), Sample(pos + 2),
                             Sample(pos + 3), Sample(pos + 4)),
          rng |-> Advance(pos, 5)]
    ELSE [p |-> p, rng |-> Advance(pos, 1)]

\* a faulty spawn pass, which also refills the slots that are Swapped
spawn_new_process_over_swapped(pt, n, pos) ==
  LET S[i \in 0..n] ==
        IF i = 0 THEN [pt |-> pt, rng |-> pos]
        ELSE LET prev == S[i - 1] IN
             IF pt[i].state \in {Killed, Swapped}
               THEN LET r == SpawnSlot(prev.pt[i], prev.rng) IN
                    [pt |-> [prev.pt EXCEPT ![i] = r.p], rng |-> r.rng]
               ELSE prev
  IN S[n]

\* _spawn_new_process: the slots Killed when the pass starts, in ascending order
spawn_new_process(pt, n, pos) ==
  LET S[i \in 0..n] ==
        IF i = 0 THEN [pt |-> pt, rng |-> pos]
        ELSE LET prev == S[i - 1] IN
             IF pt[i].state = Killed
               THEN LET r == SpawnSlot(prev.pt[i], prev.rng) IN
                    [pt |-> [prev.pt EXCEPT ![i] = r.p], rng |-> r.rng]
               ELSE prev
  IN S[n]

\* -------------------------------------------------------------------- reset
\* a faulty profile list, which builds every heavy slot twice
ProfileList_two_heavy(heavy_count, leaky_count, active_count, n) ==
  [j \in Slots(n) |->
     IF j <= 2 * heavy_count THEN HeavyProfile
     ELSE IF j <= 2 * heavy_count + leaky_count THEN LeakyProfile
     ELSE IF j <= 2 * heavy_count + leaky_count + active_count THEN ActiveProfile
     ELSE IdleProfile]

\* the list `processes` before the shuffle: its profiles, in order
ProfileList(heavy_count, leaky_count, active_count, n) ==
  [j \in Slots(n) |->
     IF j <= heavy_count THEN HeavyProfile
     ELSE IF j <= heavy_count + leaky_count THEN LeakyProfile
     ELSE IF j <= heavy_count + leaky_count + active_count THEN ActiveProfile
     ELSE IdleProfile]

Swap(x, i, j) == [x EXCEPT ![i] = x[j], ![j] = x[i]]

\* np.random.shuffle(processes): for i = n down to 2, swap entry i with the
\* entry at a position drawn from 1..i
Shuffle(x, n, pos) ==
  LET S[m \in 0..(n - 1)] ==
        IF m = 0 THEN x
        ELSE Swap(S[m - 1], n - m + 1,
                  1 + RandInt(n - m + 1, Sample(pos + m - 1)))
  IN S[n - 1]

\* np.random.randint(0, n - heavy_count - leaky_count + 1) raises ValueError
\* when the range is empty
ResetRaises(n, pos) ==
  n - RandInt(2, Sample(pos)) - RandInt(2, Sample(pos + 1)) + 1 <= 0

\* the table reset builds from the stream at pos (when it does not raise)
ResetTable(n, pos) ==
  LET heavy_count == RandInt(2, Sample(pos))
      leaky_count == RandInt(2, Sample(pos + 1))
      active_count == RandInt(n - heavy_count - leaky_count + 1, Sample(pos + 2))
      profiles == ProfileList(heavy_count, leaky_count, active_count, n)
      processes == [j \in Slots(n) |->
                      ResetProfile(profiles[j], Sample(pos + 3 * j),
                                   Sample(pos + 3 * j + 1), Sample(pos + 3 * j + 2))]
  IN Shuffle(processes, n, pos + 3 + 3 * n)

\* ------------------------------------------------------- controller instance
\* One RamSimEnv instance: its fields, and what its last call returned when it
\* was a step (action, before, local_reward, terminated, truncated; cleared by
\* reset).
NoAction == <<>>
NoCall == <<>>
Unseeded == <<>>
Seeded(seed) == <<seed>>

\* the exception the last call raised
NoError == "None"
ValueError == "ValueError"
IndexError == "IndexError"
AttributeError == "AttributeError"

\* render_mode, renderer_style and self.renderer: None, or the renderer of
\* a style with its pygame window open (screen) or closed by the user
NoRenderMode == "None"
Human == "human"
RenderModes == {NoRenderMode, Human}
RendererStyles == {"cyberpunk", "retro", "anime"}
NoRenderer == [style |-> "None", screen |-> FALSE]

\* __init__(k, render_mode, renderer_style)
RamSimEnv(n, mode, style) ==
  [k |-> n,
   process_table |-> ZeroTable(n),
   swapped_processes |-> ZeroTable(n),
   system_stats |-> ZeroStats,
   current_step |-> 0,
   np_random |-> Unseeded,
   action |-> NoAction,
   before |-> NoCall,
   local_reward |-> 0,
   terminated |-> FALSE,
   truncated |-> FALSE,
   raised |-> NoError,
   reward |-> 0,
   render_mode |-> mode,
   renderer_style |-> style,
   renderer |-> NoRenderer,
   call |-> "__init__"]

\* __init__(k) with the defaults render_mode=None, renderer_style='cyberpunk'
NewEnv(n) == RamSimEnv(n, NoRenderMode, "cyberpunk")

\* reset(seed) on instance e with the global stream at pos: the new instance
\* and the new stream position.  super().reset(seed) seeds the instance's own
\* generator self.np_random; every draw below comes from the global stream.
reset(e, seed, pos) ==
  IF ResetRaises(e.k, pos)
    THEN [env |-> [e EXCEPT !.np_random = Seeded(seed),
                            !.current_step = 0,
                            !.action = NoAction,
                            !.before = NoCall,
                            !.local_reward = 0,
                            !.terminated = FALSE,
                            !.truncated = FALSE,
                            !.raised = ValueError,
                            !.reward = 0,
                            !.call = "reset"],
          rng |-> Advance(pos, 2)]
    ELSE LET t == ResetTable(e.k, pos) IN
         [env |-> [e EXCEPT !.np_random = Seeded(seed),
                            !.current_step = 0,
                            !.process_table = t,
                            !.swapped_processes = ZeroTable(e.k),
                            !.system_stats = ResetStats(t, e.k),
                            !.action = NoAction,
                            !.before = NoCall,
                            !.local_reward = 0,
                            !.terminated = FALSE,
                            !.truncated = FALSE,
                            !.raised = NoError,
                            !.reward = 0,
                            !.call = "reset"],
          rng |-> Advance(pos, 3 + 3 * e.k + (e.k - 1))]

\* what step(a) found when it was called: table, backups, telemetry and the
\* position of the global generator, and the step counter
Before(e, pos) ==
  [process_table |-> e.process_table,
   swapped_processes |-> e.swapped_processes,
   system_stats |-> e.system_stats,
   current_step |-> e.current_step,
   np_rng |-> pos]

\* ramsim/utils/constants.py is not among the sources: RAM_USAGE_INDEX is
\* taken to name the first entry of system_stats, the ram_usage of the
\* specification's snapshot
RAM_USAGE_INDEX == "ram_usage"

\* a faulty terminated flag, which waits for ram_usage to exceed 1.0
Terminated_strict(ss) == ss[RAM_USAGE_INDEX] > Scale

\* the terminated flag of step
Terminated(ss) == ss[RAM_USAGE_INDEX] >= Scale

\* rewards of step count units of 1/(RewardSub * Scale)
RewardSub == 100

\* a faulty r_qos, which counts the priority of every slot
r_qos_every_slot(pt, n) == Sum([i \in Slots(n) |-> pt[i].priority], n)

\* r_qos = np.sum(process_table[:,2] * (process_table[:,-1] == 1.0))
r_qos(pt, n) ==
  Sum([i \in Slots(n) |-> IF pt[i].state = Running THEN pt[i].priority ELSE 0], n)

\* _calculate_global_reward in units of 1/(RewardSub * Scale); ss.power counts
\* units of 1/(10*Scale), the other entries units of 1/Scale
calculate_global_reward(pt, ss, n) ==
  LET r_stability == IF ss.ram_usage >= Pct(90) THEN -10 * Scale ELSE Scale
      r_power == 2 * (10 * Scale - ss.power)
      r_trashing == -(ss.swap_usage + ss.page_fault) * 5
  IN 40 * r_stability + 2 * r_power + 30 * r_qos(pt, n) + 10 * r_trashing

\* a faulty step, which does not call _update_system_stats
step_stale_stats(e, a, pos) ==
  LET h == HandlerPhase(e.process_table, e.swapped_processes, e.system_stats, a, e.k)
      d == apply_process_dynamics(h.pt, e.k, pos)
      s == spawn_new_process(d.pt, e.k, d.rng)
  IN [env |-> [e EXCEPT !.current_step = e.current_step + 1,
                        !.process_table = s.pt,
                        !.swapped_processes = h.sw,
                        !.action = a,
                        !.before = Before(e, pos),
                        !.local_reward = h.r,
                        !.terminated = Terminated(e.system_stats),
                        !.truncated = FALSE,
                        !.raised = NoError,
                        !.reward = RewardSub * h.r
                                   + calculate_global_reward(s.pt, e.system_stats, e.k),
                        !.call = "step"],
      rng |-> s.rng]

\* a faulty step, which goes on returning terminated once it has returned it
step_latched(e, a, pos) ==
  LET h == HandlerPhase(e.process_table, e.swapped_processes, e.system_stats, a, e.k)
      d == apply_process_dynamics(h.pt, e.k, pos)
      s == spawn_new_process(d.pt, e.k, d.rng)
      ss == update_system_stats(s.pt, e.k)
  IN [env |-> [e EXCEPT !.current_step = e.current_step + 1,
                        !.process_table = s.pt,
                        !.swapped_processes = h.sw,
                        !.system_stats = ss,
                        !.action = a,
                        !.before = Before(e, pos),
                        !.local_reward = h.r,
                        !.terminated = e.terminated \/ Terminated(ss),
                        !.truncated = FALSE,
                        !.raised = NoError,
                        !.reward = RewardSub * h.r + calculate_global_reward(s.pt, ss, e.k),
                        !.call = "step"],
      rng |-> s.rng]

\* a faulty step, which starts a new episode by itself when the previous
\* step returned terminated
step_auto_reset(e, a, pos) ==
  LET fresh == IF e.terminated THEN reset(e, 42, pos) ELSE [env |-> e, rng |-> pos]
      h == HandlerPhase(fresh.env.process_table, fresh.env.swapped_processes,
                        fresh.env.system_stats, a, e.k)
      d == apply_process_dynamics(h.pt, e.k, fresh.rng)
      s == spawn_new_process(d.pt, e.k, d.rng)
      ss == update_system_stats(s.pt, e.k)
  IN [env |-> [e EXCEPT !.current_step = fresh.env.current_step + 1,
                        !.process_table = s.pt,
                        !.swapped_processes = h.sw,
                        !.system_stats = ss,
                        !.action = a,
                        !.before = Before(e, pos),
                        !.local_reward = h.r,
                        !.terminated = Terminated(ss),
                        !.truncated = FALSE,
                        !.raised = NoError,
                        !.reward = RewardSub * h.r + calculate_global_reward(s.pt, ss, e.k),
                        !.call = "step"],
      rng |-> s.rng]

\* step(a) on instance e with the global stream at pos
step(e, a, pos) ==
  LET h == HandlerPhase(e.process_table, e.swapped_processes, e.system_stats, a, e.k)
      d == apply_process_dynamics(h.pt, e.k, pos)
      s == spawn_new_process(d.pt, e.k, d.rng)
      ss == update_system_stats(s.pt, e.k)
  IN [env |-> [e EXCEPT !.current_step = e.current_step + 1,
                        !.process_table = s.pt,
                        !.swapped_processes = h.sw,
                        !.system_stats = ss,
                        !.action = a,
                        !.before = Before(e, pos),
                        !.local_reward = h.r,
                        !.terminated = Terminated(ss),
                        !.truncated = FALSE,
                        !.raised = NoError,
                        !.reward = RewardSub * h.r + calculate_global_reward(s.pt, ss, e.k),
                        !.call = "step"],
      rng |-> s.rng]

ActionVectors(n) == [Slots(n) -> ActionCodes]
Seeds == {42}

\* ---------------------------------------------------------- state machine
VARIABLES
  k,                  \* self.k
  process_table,      \* self.process_table: slot -> [ram, cpu, priority, state]
  swapped_processes,  \* self.swapped_processes: slot -> backup record
  system_stats,       \* self.system_stats
  current_step,       \* self.current_step
  np_random,          \* self.np_random: the seed reset gave the instance's own generator
  action,             \* the action vector of the last call (NoAction: it was no step)
  before,             \* what the last step started from (NoCall: the last call was no step)
  local_reward,       \* reward of step after its handler loop: the sum of the local rewards
  terminated,         \* the terminated flag the last step returned
  truncated,          \* the truncated flag the last step returned
  raised,             \* the exception the last call raised (NoError: it returned)
  reward,             \* the reward the last step returned
  render_mode,        \* self.render_mode
  renderer_style,     \* self.renderer_style
  renderer,           \* self.renderer
  call,               \* the method called last
  np_rng,             \* the position of the global generator np.random
  env2,               \* a second instance in the same Python process
  same_calls,         \* env2 has received the same calls as the first instance
  twin,               \* the first instance as it runs in a process of its own
  np_rng_twin         \* np.random of the twin's process

vars == <<k, process_table, swapped_processes, system_stats, current_step,
          np_random, action, before, local_reward, terminated, truncated, raised,
          reward, render_mode, renderer_style, renderer, call, np_rng,
          env2, same_calls, twin, np_rng_twin>>

\* the instance the variables hold
Self ==
  [k |-> k, process_table |-> process_table,
   swapped_processes |-> swapped_processes, system_stats |-> system_stats,
   current_step |-> current_step, np_random |-> np_random, action |-> action,
   before |-> before, local_reward |-> local_reward, terminated |-> terminated,
   truncated |-> truncated, raised |-> raised, reward |-> reward,
   render_mode |-> render_mode, renderer_style |-> renderer_style,
   renderer |-> renderer, call |-> call]

Becomes(e) ==
  /\ k' = e.k
  /\ process_table' = e.process_table
  /\ swapped_processes' = e.swapped_processes
  /\ system_stats' = e.system_stats
  /\ current_step' = e.current_step
  /\ np_random' = e.np_random
  /\ action' = e.action
  /\ before' = e.before
  /\ local_reward' = e.local_reward
  /\ terminated' = e.terminated
  /\ truncated' = e.truncated
  /\ raised' = e.raised
  /\ reward' = e.reward
  /\ render_mode' = e.render_mode
  /\ renderer_style' = e.renderer_style
  /\ renderer' = e.renderer
  /\ call' = e.call

\* the instance was constructed with the defaults and has raised nothing
Headless ==
  /\ raised = NoError
  /\ reward = 0
  /\ render_mode = NoRenderMode
  /\ renderer_style = "cyberpunk"
  /\ renderer = NoRenderer
  /\ call = "__init__"

\* RamSimEnv(k): the instance as constructed, the global generator anywhere
InitSelf ==
  /\ k \in 1..MaxK
  /\ process_table = NewEnv(k).process_table
  /\ swapped_processes = NewEnv(k).swapped_processes
  /\ system_stats = NewEnv(k).system_stats
  /\ current_step = NewEnv(k).current_step
  /\ np_random = NewEnv(k).np_random
  /\ action = NewEnv(k).action
  /\ before = NewEnv(k).before
  /\ local_reward = NewEnv(k).local_reward
  /\ terminated = NewEnv(k).terminated
  /\ truncated = NewEnv(k).truncated
  /\ Headless
  /\ np_rng \in 0..(Period - 1)

\* one instance alone: the other instances are never called
Init ==
  /\ InitSelf
  /\ env2 = NewEnv(k)
  /\ same_calls = TRUE
  /\ twin = NewEnv(k)
  /\ np_rng_twin = 0

Others == <<env2, same_calls, twin, np_rng_twin>>

\* reset(seed) returning normally
Reset ==
  /\ ~ResetRaises(k, np_rng)
  /\ \E seed \in Seeds :
       LET r == reset(Self, seed, np_rng) IN
       /\ Becomes(r.env)
       /\ np_rng' = r.rng
  /\ UNCHANGED Others

\* reset(seed) raising ValueError from np.random.randint
ResetError ==
  /\ ResetRaises(k, np_rng)
  /\ \E seed \in Seeds :
       LET r == reset(Self, seed, np_rng) IN
       /\ Becomes(r.env)
       /\ np_rng' = r.rng
  /\ UNCHANGED Others

\* step(a) for a well-formed action vector a
Step ==
  /\ k * (current_step + 1) <= MaxSlotSteps
  /\ \E a \in ActionVectors(k) :
       LET r == step(Self, a, np_rng) IN
       /\ Becomes(r.env)
       /\ np_rng' = r.rng
  /\ UNCHANGED Others

Next == Reset \/ ResetError \/ Step

Spec == Init /\ [][Next]_vars

\* ------------------------------------------------------------- properties
Stepped == action # NoAction
AllNoop == [i \in Slots(k) |-> 7]

\* the handler phase of the last step, recomputed from what the step started from
LastHandlerPhase ==
  HandlerPhase(before.process_table, before.swapped_processes,
               before.system_stats, action, k)

\* Suspend halves exactly: every ram a Suspend can meet is even on the grid
HalvingExact ==
  \A i \in Slots(k) :
    process_table[i].state = Running => process_table[i].ram % 2 = 0

\* C1: in every reachable state, for every slot, the swap backup is non-zero
\* if and only if the slot is Swapped.
C1_BackupIffSwapped ==
  \A i \in Slots(k) :
    (swapped_processes[i] # Zero) <=> (process_table[i].state = Swapped)

\* a Swap-in was rejected: the slot is still Swapped and its backup is kept
C1_Witness ==
  /\ Stepped
  /\ \E i \in Slots(k) :
       /\ action[i] = 2
       /\ before.process_table[i].state = Swapped
       /\ process_table[i].state = Swapped
       /\ swapped_processes[i] # Zero

\* C2: in every reachable state every slot's ram, cpu and priority lie in
\* [0, 1] and its state is one of the four state codes.
C2_FieldsInRange ==
  \A i \in Slots(k) :
    /\ process_table[i].ram \in 0..Scale
    /\ process_table[i].cpu \in 0..Scale
    /\ process_table[i].priority \in 0..Scale
    /\ process_table[i].state \in StateCodes

\* a Resume was accepted: the Suspended slot is Running with its ram doubled
C2_Witness ==
  /\ Stepped
  /\ \E i \in Slots(k) :
       /\ action[i] = 4
       /\ before.process_table[i].state = Suspended
       /\ LastHandlerPhase.pt[i].state = Running
       /\ LastHandlerPhase.pt[i].ram = 2 * before.process_table[i].ram
       /\ process_table[i].state = Running

\* C3: in every reachable state, the constructor's included, a Killed slot has
\* ram = cpu = priority = 0.
C3_KilledIsZero ==
  \A i \in Slots(k) :
    process_table[i].state = Killed => process_table[i] = Zero

\* a Renice-increase addressed a Killed slot, which is still Killed
C3_Witness ==
  /\ Stepped
  /\ \E i \in Slots(k) :
       /\ action[i] = 5
       /\ before.process_table[i].state = Killed
       /\ process_table[i].state = Killed

\* C4: after every step the terminated flag is true if and only if the
\* ram_usage of the telemetry recomputed from the table the step leaves is
\* >= 1.0, and the truncated flag is false.
C4_TerminatedIffRamFull ==
  /\ Stepped =>
       /\ terminated <=> (update_system_stats(process_table, k).ram_usage >= Scale)
       /\ system_stats = update_system_stats(process_table, k)
  /\ truncated = FALSE

\* a step returned terminated = true
C4_Witness == Stepped /\ terminated /\ system_stats.ram_usage >= Scale

\* C7: after a step in which slot i received Kill, slot i is Killed.
C7_KilledAfterKill ==
  Stepped =>
    \A i \in Slots(k) : action[i] = 0 => process_table[i].state = Killed

\* C8: after a step in which a Running or Suspended slot received Swap-out,
\* the slot is Swapped with ram = cpu = 0 and its priority kept, and its
\* backup holds the record the slot had when the step started.
C8_SwapOut ==
  Stepped =>
    \A i \in Slots(k) :
      (action[i] = 1 /\ before.process_table[i].state \in {Running, Suspended}) =>
        /\ process_table[i] = Proc(0, 0, before.process_table[i].priority, Swapped)
        /\ swapped_processes[i] = before.process_table[i]

\* a Suspended slot with ram and priority was swapped out
C8_Witness ==
  /\ Stepped
  /\ \E i \in Slots(k) :
       /\ action[i] = 1
       /\ before.process_table[i].state = Suspended
       /\ before.process_table[i].ram > 0
       /\ before.process_table[i].priority > 0
       /\ process_table[i].state = Swapped

C10_AllNoop ==
  (Stepped /\ action = AllNoop) =>
    LET d == apply_process_dynamics(before.process_table, k, before.np_rng)
        s == spawn_new_process(d.pt, k, d.rng)
    IN /\ LastHandlerPhase = Result(before.process_table, before.swapped_processes, 0)
       /\ swapped_processes = before.swapped_processes
       /\ process_table = s.pt

\* an all-No-op step whose dynamics and spawn passes changed the table
C10_Witness ==
  /\ Stepped
  /\ action = AllNoop
  /\ process_table # before.process_table
  /\ \E i \in Slots(k) :
       before.process_table[i].state = Killed /\ process_table[i].state = Running

\* ------------------------------------------------- instances side by side
\* The first instance and env2 live in one process and share np.random; the
\* twin is the first instance in a process where no other instance exists.
\* Every call goes to the first instance and to its twin; with also2 the same
\* call then goes to env2 as well.  An episode is one reset of the fresh
\* instances followed by at most MaxPairSteps steps.
_get_obs(e) == [system_stats |-> e.system_stats, process_table |-> e.process_table]

\* what a call hands back: the snapshot and, of a step, the terminated flag
Returned(e) == [obs |-> _get_obs(e), terminated |-> e.terminated]

PairReset ==
  /\ np_random = Unseeded
  /\ \E seed \in Seeds, also2 \in BOOLEAN :
       LET r1 == reset(Self, seed, np_rng)
           r2 == reset(env2, seed, r1.rng)
           rt == reset(twin, seed, np_rng_twin)
       IN /\ Becomes(r1.env)
          /\ env2' = IF also2 THEN r2.env ELSE env2
          /\ np_rng' = IF also2 THEN r2.rng ELSE r1.rng
          /\ same_calls' = (also2 /\ ~ResetRaises(k, np_rng)
                                  /\ ~ResetRaises(k, r1.rng))
          /\ twin' = rt.env
          /\ np_rng_twin' = rt.rng

PairStep ==
  /\ np_random # Unseeded
  /\ current_step + 1 <= MaxPairSteps
  /\ \E a \in ActionVectors(k), also2 \in BOOLEAN :
       LET r1 == step(Self, a, np_rng)
           r2 == step(env2, a, r1.rng)
           rt == step(twin, a, np_rng_twin)
       IN /\ Becomes(r1.env)
          /\ env2' = IF also2 THEN r2.env ELSE env2
          /\ np_rng' = IF also2 THEN r2.rng ELSE r1.rng
          /\ same_calls' = (same_calls /\ also2)
          /\ twin' = rt.env
          /\ np_rng_twin' = rt.rng

NextPair == PairReset \/ PairStep

\* the twin's process starts with np.random in the state the first one has
InitPair ==
  /\ InitSelf
  /\ env2 = NewEnv(k)
  /\ same_calls = TRUE
  /\ twin = NewEnv(k)
  /\ np_rng_twin = np_rng

SpecPair == InitPair /\ [][NextPair]_vars

\* C5: two instances reset with the same seed and given the same actions
\* return the same snapshots and flags, after reset and after every step.
C5_Deterministic == same_calls => Returned(Self) = Returned(env2)

\* C6: what an instance returns does not depend on calls made to another
\* instance in between: it returns what its twin returns, which runs alone.
C6_Independent == Returned(Self) = Returned(twin)

\* ------------------------------------------------- the all-No-op scenario
\* RamSimEnv(k=5), one reset, then steps of No-op on every slot for as long as
\* the episode is not terminated.
ScenarioK == 5
ScenarioSteps == 8

InitScenario ==
  /\ k = ScenarioK
  /\ process_table = NewEnv(ScenarioK).process_table
  /\ swapped_processes = NewEnv(ScenarioK).swapped_processes
  /\ system_stats = NewEnv(ScenarioK).system_stats
  /\ current_step = NewEnv(ScenarioK).current_step
  /\ np_random = NewEnv(ScenarioK).np_random
  /\ action = NewEnv(ScenarioK).action
  /\ before = NewEnv(ScenarioK).before
  /\ local_reward = NewEnv(ScenarioK).local_reward
  /\ terminated = NewEnv(ScenarioK).terminated
  /\ truncated = NewEnv(ScenarioK).truncated
  /\ Headless
  /\ np_rng \in 0..(Period - 1)
  /\ env2 = NewEnv(ScenarioK)
  /\ same_calls = TRUE
  /\ twin = NewEnv(ScenarioK)
  /\ np_rng_twin = 0

\* env.reset(seed=42) on the fresh instance
ScenarioReset ==
  /\ np_random = Unseeded
  /\ ~ResetRaises(k, np_rng)
  /\ \E seed \in Seeds :
       LET r == reset(Self, seed, np_rng) IN
       /\ Becomes(r.env)
       /\ np_rng' = r.rng
  /\ UNCHANGED Others

\* env.step([7] * k) while the episode runs
ScenarioStep ==
  /\ np_random # Unseeded
  /\ ~terminated
  /\ current_step < ScenarioSteps
  /\ LET r == step(Self, AllNoop, np_rng) IN
     /\ Becomes(r.env)
     /\ np_rng' = r.rng
  /\ UNCHANGED Others

NextScenario == ScenarioReset \/ ScenarioStep

SpecScenario == InitScenario /\ [][NextScenario]_vars

\* C11: with k = 5, no all-No-op step among the first 8 after a reset returns
\* terminated = true.
C11_NoopNeverTerminates ==
  (Stepped /\ action = AllNoop /\ current_step <= ScenarioSteps) => ~terminated

\* ------------------------------------------------- one handler call alone
\* A two-slot instance in mid-episode: slot 1 holds any record of the grids
\* below in any state (its backup non-zero exactly when it is Swapped), slot 2
\* is the rest of the system, and system_stats is the telemetry of that table.
\* The one action calls a handler on slot 1, as the loop of step calls it.
RamGrid == {1, 9, 10, 40, 41, 50, 60, 61, 80}
CpuGrid == {0, 4, 5, 9, 10, 40, 41, 50, 51}
PriorityGrid == {0, 10, 11, 19, 20, 21, 60, 61, 70, 94, 95, 97, 100}
OtherRamGrid == {0, 20, 40, 70, 90}

RunningRecords ==
  {Proc(Pct(ram), Pct(cpu), Pct(priority), Running) :
     ram \in RamGrid, cpu \in CpuGrid, priority \in PriorityGrid}
\* what Suspend leaves of a Running record
SuspendedRecords ==
  {Proc(Pct(ram) \div 2, 0, Pct(priority), Suspended) :
     ram \in RamGrid, priority \in PriorityGrid}
\* a Swapped slot keeps the priority it had, or one a Renice gave it since
SwappedRows(backup) ==
  {Proc(0, 0, backup.priority, Swapped),
   Proc(0, 0, Clip(backup.priority + Pct(20), 0, Scale), Swapped)}

\* slot 1 and its backup
HandlerInputs ==
  {<<p, Zero>> : p \in RunningRecords \cup SuspendedRecords \cup {Zero}}
    \cup UNION {{<<p, b>> : p \in SwappedRows(b)} :
                  b \in RunningRecords \cup SuspendedRecords}

OtherSlot(ram) == IF ram = 0 THEN Zero ELSE Proc(Pct(ram), Pct(20), Pct(50), Running)

InitHandler ==
  \E input \in HandlerInputs, other \in OtherRamGrid, seed \in Seeds :
    /\ k = 2
    /\ process_table = <<input[1], OtherSlot(other)>>
    /\ swapped_processes = <<input[2], Zero>>
    /\ system_stats = update_system_stats(<<input[1], OtherSlot(other)>>, 2)
    /\ current_step = 0
    /\ np_random = Seeded(seed)
    /\ action = NoAction
    /\ before = NoCall
    /\ local_reward = 0
    /\ terminated = FALSE
    /\ truncated = FALSE
    /\ Headless
    /\ np_rng = 0
    /\ env2 = NewEnv(2)
    /\ same_calls = TRUE
    /\ twin = NewEnv(2)
    /\ np_rng_twin = 0

\* reward += self.handlers[code](0): the first pass of the loop of step
HandlerCall ==
  /\ action = NoAction
  /\ \E code \in ActionCodes :
       LET h == handlers(code, process_table, swapped_processes, system_stats, 1) IN
       /\ process_table' = h.pt
       /\ swapped_processes' = h.sw
       /\ local_reward' = h.r
       /\ action' = <<code>>
       /\ before' = Before(Self, np_rng)
  /\ UNCHANGED <<k, system_stats, current_step, np_random, terminated, truncated,
                 raised, reward, render_mode, renderer_style, renderer, call,
                 np_rng, env2, same_calls, twin, np_rng_twin>>

NextHandler == HandlerCall

SpecHandler == InitHandler /\ [][NextHandler]_vars

\* the handler call that has been made, what it found and what it left
Called(code) == action = <<code>>
SlotBefore == before.process_table[1]
BackupBefore == before.swapped_processes[1]
RamUsageBefore == before.system_stats[RAM_USAGE_INDEX]
SlotAfter == process_table[1]
BackupAfter == swapped_processes[1]
Untouched == process_table = before.process_table
               /\ swapped_processes = before.swapped_processes

\* C12: a Swap-in on a Swapped slot whose backup ram added to the ram_usage
\* of the step's start exceeds 1.0 returns -10 and leaves slot and backup as
\* they were.
C12_SwapInRejected ==
  (Called(2) /\ SlotBefore.state = Swapped
     /\ RamUsageBefore + BackupBefore.ram > Scale) =>
    /\ local_reward = R(-10)
    /\ SlotAfter = SlotBefore /\ SlotAfter.state = Swapped
    /\ BackupAfter = BackupBefore
    /\ Untouched

\* a Swap-in was rejected although ram_usage itself was below 1.0
C12_Witness ==
  /\ Called(2)
  /\ SlotBefore.state = Swapped
  /\ RamUsageBefore < Scale
  /\ RamUsageBefore + BackupBefore.ram > Scale
  /\ local_reward = R(-10)

\* C13: a Swap-in on a Swapped slot with ram_usage + backup ram <= 1.0 makes
\* the slot the backup's ram, cpu and priority in state Running, zeroes the
\* backup and returns backup priority * 5, less 15 when ram_usage + backup ram
\* >= 0.8.
C13_SwapInAccepted ==
  (Called(2) /\ SlotBefore.state = Swapped
     /\ RamUsageBefore + BackupBefore.ram <= Scale) =>
    /\ SlotAfter = Proc(BackupBefore.ram, BackupBefore.cpu, BackupBefore.priority, Running)
    /\ BackupAfter = Zero
    /\ local_reward = 5 * BackupBefore.priority
                        - (IF RamUsageBefore + BackupBefore.ram >= Pct(80)
                             THEN R(15) ELSE 0)

\* an accepted Swap-in under pressure, of a slot reniced while it was Swapped
C13_Witness ==
  /\ Called(2)
  /\ SlotBefore.state = Swapped
  /\ SlotBefore.priority # BackupBefore.priority
  /\ RamUsageBefore + BackupBefore.ram \in Pct(80)..Scale
  /\ SlotAfter.state = Running
  /\ local_reward = 5 * BackupBefore.priority - R(15)

\* C14: Kill on a slot that is not Killed zeroes slot and backup and returns
\* +20 if ram > 0.4, priority <= 0.2 and cpu < 0.1, -10 if ram > 0.4 and
\* priority > 0.6, and -2 otherwise; Kill on a Killed slot returns -1; the +20
\* and the -10 case never both apply.
C14_Kill ==
  Called(0) =>
    LET ideal == SlotBefore.ram > Pct(40) /\ SlotBefore.priority <= Pct(20)
                   /\ SlotBefore.cpu < Pct(10)
        critical == SlotBefore.ram > Pct(40) /\ SlotBefore.priority > Pct(60)
    IN /\ ~(ideal /\ critical)
       /\ SlotBefore.state # Killed =>
            /\ SlotAfter = Zero
            /\ BackupAfter = Zero
            /\ ideal => local_reward = R(20)
            /\ critical => local_reward = R(-10)
            /\ (~ideal /\ ~critical) => local_reward = R(-2)
       /\ SlotBefore.state = Killed => (local_reward = R(-1) /\ Untouched)

\* a Running slot with ram = 0.5 and priority = 0.7 was killed, for -10
C14_Witness ==
  /\ Called(0)
  /\ SlotBefore.state = Running
  /\ SlotBefore.ram = Pct(50)
  /\ SlotBefore.priority = Pct(70)
  /\ local_reward = R(-10)
  /\ SlotAfter = Zero

\* C15: Swap-out returns 5 for a Suspended and 2 for a Running slot, plus 10
\* when the ram_usage of the step's start is >= 0.8; on a Swapped slot it
\* returns -2 and on a Killed slot -5, changing neither slot nor backup.
C15_SwapOutReward ==
  Called(1) =>
    LET bonus == IF RamUsageBefore >= Pct(80) THEN R(10) ELSE 0 IN
    /\ SlotBefore.state = Suspended => local_reward = R(5) + bonus
    /\ SlotBefore.state = Running => local_reward = R(2) + bonus
    /\ SlotBefore.state = Swapped => (local_reward = R(-2) /\ Untouched)
    /\ SlotBefore.state = Killed => (local_reward = R(-5) /\ Untouched)

\* a Suspended slot was swapped out at ram_usage >= 0.8, for 15
C15_Witness ==
  /\ Called(1)
  /\ SlotBefore.state = Suspended
  /\ RamUsageBefore >= Pct(80)
  /\ local_reward = R(15)
  /\ SlotAfter.state = Swapped

\* C16: Renice-increase on a slot that is not Killed returns -2 and keeps the
\* priority when it is >= 0.95; below that it sets min(priority + 0.2, 1.0)
\* and returns +10 if cpu > 0.5, else -8 if the old priority < 0.2 and
\* ram < 0.1, else 0; on a Killed slot it returns -5 and changes nothing.
C16_ReniceIncrease ==
  Called(5) =>
    /\ SlotBefore.state = Killed => (local_reward = R(-5) /\ Untouched)
    /\ (SlotBefore.state # Killed /\ SlotBefore.priority >= Pct(95)) =>
         (local_reward = R(-2) /\ Untouched)
    /\ (SlotBefore.state # Killed /\ SlotBefore.priority < Pct(95)) =>
         /\ SlotAfter = [SlotBefore EXCEPT
                           !.priority = Min(SlotBefore.priority + Pct(20), Scale)]
         /\ BackupAfter = BackupBefore
         /\ local_reward =
              IF SlotBefore.cpu > Pct(50) THEN R(10)
              ELSE IF SlotBefore.priority < Pct(20) /\ SlotBefore.ram < Pct(10)
                THEN R(-8)
              ELSE 0

\* a Renice-increase at priority 0.97 was refused, for -2
C16_Witness ==
  /\ Called(5)
  /\ SlotBefore.state # Killed
  /\ SlotBefore.priority = Pct(97)
  /\ SlotAfter.priority = Pct(97)
  /\ local_reward = R(-2)

\* C17: Renice-decrease on a slot that is not Killed returns -2 and keeps the
\* priority when it is <= 0.1; above that it sets max(priority - 0.2, 0.0)
\* and returns +10 if ram > 0.6 and cpu < 0.05, else -8 if the old priority
\* > 0.6 and cpu > 0.4, else 0; on a Killed slot it returns -5 and changes
\* nothing.
C17_ReniceDecrease ==
  Called(6) =>
    /\ SlotBefore.state = Killed => (local_reward = R(-5) /\ Untouched)
    /\ (SlotBefore.state # Killed /\ SlotBefore.priority <= Pct(10)) =>
         (local_reward = R(-2) /\ Untouched)
    /\ (SlotBefore.state # Killed /\ SlotBefore.priority > Pct(10)) =>
         /\ SlotAfter = [SlotBefore EXCEPT
                           !.priority = Max(SlotBefore.priority - Pct(20), 0)]
         /\ BackupAfter = BackupBefore
         /\ local_reward =
              IF SlotBefore.ram > Pct(60) /\ SlotBefore.cpu < Pct(5) THEN R(10)
              ELSE IF SlotBefore.priority > Pct(60) /\ SlotBefore.cpu > Pct(40)
                THEN R(-8)
              ELSE 0

\* a Renice-decrease at priority exactly 0.1 was refused, for -2
C17_Witness ==
  /\ Called(6)
  /\ SlotBefore.state = Running
  /\ SlotBefore.priority = Pct(10)
  /\ SlotAfter.priority = Pct(10)
  /\ local_reward = R(-2)

C19_StatsOfCurrentTable ==
  (Stepped \/ system_stats # ZeroStats) =>
    /\ system_stats = update_system_stats(process_table, k)
    /\ system_stats.ram_usage = Clip(TotalRam(process_table, k), 0, Scale)
    /\ system_stats.cpu_usage =
         Clip(Sum([i \in Slots(k) |-> process_table[i].cpu], k), 0, Scale)

\* a step after a reset changed table and telemetry
C19_Witness ==
  /\ Stepped
  /\ before.system_stats # ZeroStats
  /\ process_table # before.process_table
  /\ system_stats # before.system_stats

\* C20: in every state each of ram_usage, cpu_usage, page_fault, swap_usage
\* and power lies in [0, 1] (power counts units of 1/(10*Scale)).
C20_StatsInRange ==
  /\ system_stats.ram_usage \in 0..Scale
  /\ system_stats.cpu_usage \in 0..Scale
  /\ system_stats.page_fault \in 0..Scale
  /\ system_stats.swap_usage \in 0..Scale
  /\ system_stats.power \in 0..(10 * Scale)

\* a step left a table whose ram, with the base load, sums to more than 1.0
C20_Witness ==
  /\ Stepped
  /\ TotalRam(process_table, k) > Scale
  /\ system_stats.ram_usage = Scale
  /\ system_stats.swap_usage > 0

\* ------------------------------------- step on the argument as it comes
\* step does not check its argument.  It reads action[i] for i in range(k)
\* and indexes the Python list self.handlers (8 entries) with each code: an
\* index in -8 .. -1 counts from the end of the list, an index outside
\* -8 .. 7 and a missing action[i] raise IndexError, entries of the vector
\* beyond the first k are never read.
HandlerCount == 8
ArgCodes == {-9, -8, -1, 0, 7, 8}
ArgVectors(n) == UNION {[1..len -> ArgCodes] : len \in 0..(n + 1)}

\* the vector is what the specification requires: k codes within 0 .. 7
WellFormed(a, n) == Len(a) = n /\ \A i \in 1..Len(a) : a[i] \in ActionCodes

\* the entry of self.handlers that the index code selects
ListIndex(code) == IF code >= 0 THEN code ELSE code + HandlerCount

\* the handler loop of step on any vector: it stops where an index fails
ArgPhase(pt, sw, ss, a, n) ==
  LET H[i \in 0..n] ==
        IF i = 0 THEN [pt |-> pt, sw |-> sw, r |-> 0, raised |-> NoError]
        ELSE LET prev == H[i - 1] IN
             IF prev.raised # NoError THEN prev
             ELSE IF i > Len(a) \/ a[i] < -HandlerCount \/ a[i] >= HandlerCount
               THEN [prev EXCEPT !.raised = IndexError]
               ELSE LET h == handlers(ListIndex(a[i]), prev.pt, prev.sw, ss, i)
                    IN [pt |-> h.pt, sw |-> h.sw, r |-> prev.r + h.r,
                        raised |-> NoError]
  IN H[n]

\* a faulty step, which leaves the instance as it found it when it raises
step_any_atomic(e, a, pos) ==
  LET h == ArgPhase(e.process_table, e.swapped_processes, e.system_stats, a, e.k) IN
  IF h.raised # NoError
    THEN [env |-> [e EXCEPT !.action = a,
                            !.before = Before(e, pos),
                            !.raised = h.raised,
                            !.call = "step"],
          rng |-> pos]
    ELSE LET r == step(e, [i \in Slots(e.k) |-> ListIndex(a[i])], pos)
         IN [env |-> [r.env EXCEPT !.action = a], rng |-> r.rng]

\* step(a) for any vector a: when the handler loop raises, the call ends
\* there; otherwise it is the step of the handlers the indices selected
step_any(e, a, pos) ==
  LET h == ArgPhase(e.process_table, e.swapped_processes, e.system_stats, a, e.k) IN
  IF h.raised # NoError
    THEN [env |-> [e EXCEPT !.current_step = e.current_step + 1,
                            !.process_table = h.pt,
                            !.swapped_processes = h.sw,
                            !.action = a,
                            !.before = Before(e, pos),
                            !.local_reward = h.r,
                            !.raised = h.raised,
                            !.call = "step"],
          rng |-> pos]
    ELSE LET r == step(e, [i \in Slots(e.k) |-> ListIndex(a[i])], pos)
         IN [env |-> [r.env EXCEPT !.action = a], rng |-> r.rng]

\* env.reset(seed) on the fresh instance
ArgsReset ==
  /\ np_random = Unseeded
  /\ ~ResetRaises(k, np_rng)
  /\ \E seed \in Seeds :
       LET r == reset(Self, seed, np_rng) IN
       /\ Becomes(r.env)
       /\ np_rng' = r.rng
  /\ UNCHANGED Others

\* the first step of the episode, on a vector that is not well formed
ArgsStep ==
  /\ np_random # Unseeded
  /\ current_step = 0
  /\ \E a \in ArgVectors(k) :
       /\ ~WellFormed(a, k)
       /\ LET r == step_any(Self, a, np_rng) IN
          /\ Becomes(r.env)
          /\ np_rng' = r.rng
  /\ UNCHANGED Others

NextArgs == ArgsReset \/ ArgsStep

SpecArgs == Init /\ [][NextArgs]_vars

\* C21: a step on an action vector whose length is not k, or which holds a
\* code outside 0 .. 7, raises an error: it never returns as if the vector
\* had been a valid one.
C21_MalformedRejected ==
  (current_step > 0 /\ ~WellFormed(action, k)) => raised # NoError

\* --------------------------------------------- actions whose precondition fails
\* the action code does not apply to a slot holding record p
PreconditionFails(code, p) ==
  CASE code = 0 -> p.state = Killed
    [] code = 1 -> p.state \in {Swapped, Killed}
    [] code = 2 -> p.state # Swapped
    [] code = 3 -> p.state \in {Suspended, Swapped, Killed}
    [] code = 4 -> p.state # Suspended
    [] code = 5 -> p.state = Killed \/ p.priority >= Pct(95)
    [] code = 6 -> p.state = Killed \/ p.priority <= Pct(10)
    [] code = 7 -> FALSE

\* what the handler of slot i did in the last step
LastHandler(i) ==
  handlers(action[i], before.process_table, before.swapped_processes,
           before.system_stats, i)

\* C22: a step on a vector of k codes within 0 .. 7 returns without raising,
\* from every reachable state; a slot whose action does not apply (Kill on
\* Killed, Swap-out on Swapped or Killed, Swap-in on a slot not Swapped,
\* Suspend on Suspended, Swapped or Killed, Resume on a slot not Suspended,
\* Renice on Killed or at the cap or floor) earns a negative local reward
\* and its handler leaves the slot and its backup as they were: the backup
\* is the same after the step, a Suspended or Swapped slot is the same
\* after the step, and a Killed slot is the same unless the spawn pass
\* respawned it.
C22_FailedActionIsPenalty ==
  Stepped =>
    /\ raised = NoError
    /\ local_reward = LastHandlerPhase.r
    /\ \A i \in Slots(k) :
         PreconditionFails(action[i], before.process_table[i]) =>
           /\ LastHandler(i).r < 0
           /\ LastHandler(i).pt[i] = before.process_table[i]
           /\ LastHandler(i).sw[i] = before.swapped_processes[i]
           /\ LastHandlerPhase.pt[i] = before.process_table[i]
           /\ swapped_processes[i] = before.swapped_processes[i]
           /\ before.process_table[i].state \in {Suspended, Swapped} =>
                process_table[i] = before.process_table[i]
           /\ before.process_table[i].state = Killed =>
                \/ process_table[i] = before.process_table[i]
                \/ process_table[i].state = Running
    /\ (\A i \in Slots(k) : PreconditionFails(action[i], before.process_table[i]))
         => local_reward < 0

\* in one step a Swapped slot with a backup received Resume and a Killed slot
\* received a Renice
C22_Witness ==
  /\ Stepped
  /\ raised = NoError
  /\ k = 2
  /\ \E i, j \in Slots(k) :
       /\ action[i] = 4
       /\ before.process_table[i].state = Swapped
       /\ before.swapped_processes[i].ram > 0
       /\ process_table[i] = before.process_table[i]
       /\ action[j] \in {5, 6}
       /\ before.process_table[j].state = Killed
       /\ process_table[j] = Zero
  /\ local_reward < 0

\* ------------------------------------------------ respawn of Killed slots
\* The draws of the spawn pass come from the tape, on which samples below
\* 0.05 recur: that is the fair spawn draw.  The steps counted are those of
\* one episode.
RespawnSteps == 8

AllKilled == \A i \in Slots(k) : process_table[i].state = Killed
SomeRunning == \E i \in Slots(k) : process_table[i].state = Running

\* env.reset(seed) on the fresh instance
RespawnReset ==
  /\ np_random = Unseeded
  /\ current_step = 0
  /\ ~ResetRaises(k, np_rng)
  /\ \E seed \in Seeds :
       LET r == reset(Self, seed, np_rng) IN
       /\ Becomes(r.env)
       /\ np_rng' = r.rng
  /\ UNCHANGED Others

\* env.step([0] * k) as the first step after the reset
KillAll ==
  /\ np_random # Unseeded
  /\ current_step = 0
  /\ LET r == step(Self, [i \in Slots(k) |-> 0], np_rng) IN
     /\ Becomes(r.env)
     /\ np_rng' = r.rng
  /\ UNCHANGED Others

\* env.step([7] * k) while every slot is Killed
NoopStep ==
  /\ AllKilled
  /\ current_step < RespawnSteps
  /\ LET r == step(Self, AllNoop, np_rng) IN
     /\ Becomes(r.env)
     /\ np_rng' = r.rng
  /\ UNCHANGED Others

NextRespawn == RespawnReset \/ KillAll \/ NoopStep

\* a call of step that finds every slot Killed: among the steps of
\* NextRespawn these are the steps of NoopStep, and NoopStep is enabled
\* exactly when such a call is
CallsStep ==
  /\ AllKilled
  /\ current_step < RespawnSteps
  /\ current_step' = current_step + 1

\* the caller keeps stepping
SpecRespawn == Init /\ [][NextRespawn]_vars /\ WF_current_step(CallsStep)

\* C23: from a table whose k slots are all Killed, all-No-op steps with a
\* fair spawn draw lead to a table with at least one Running slot.
C23_KilledRespawns == AllKilled ~> SomeRunning

\* an all-No-op step found every slot Killed and left a slot Running, after
\* the kill-all step of a reset episode
C23_Witness ==
  /\ Stepped
  /\ np_random # Unseeded
  /\ current_step >= 2
  /\ action = AllNoop
  /\ \A i \in Slots(k) : before.process_table[i].state = Killed
  /\ SomeRunning

\* ------------------------------------------------------ the table of reset
\* the last call was a reset that returned
AfterReset == np_random # Unseeded /\ action = NoAction /\ raised = NoError

Within(x, lo, hi) == Pct(lo) <= x /\ x <= Pct(hi)

\* the ranges from which reset draws the fields of each profile
InHeavy(p) == Within(p.ram, 40, 60) /\ Within(p.cpu, 60, 90) /\ Within(p.priority, 70, 100)
InLeaky(p) == Within(p.ram, 60, 80) /\ Within(p.cpu, 0, 5) /\ Within(p.priority, 0, 20)
InActive(p) == Within(p.ram, 10, 40) /\ Within(p.cpu, 20, 50) /\ Within(p.priority, 40, 70)
InIdle(p) == Within(p.ram, 1, 5) /\ Within(p.cpu, 0, 2) /\ Within(p.priority, 10, 40)

CounterStep ==
  /\ action' # NoAction =>
       /\ current_step' = current_step + 1
       /\ Len(process_table') = k /\ Len(swapped_processes') = k
       /\ \A i \in Slots(k) :
            (action'[i] = 7 /\ process_table[i].state \in {Suspended, Swapped}) =>
              /\ process_table'[i] = process_table[i]
              /\ swapped_processes'[i] = swapped_processes[i]
       /\ \A i \in Slots(k) :
            action'[i] = 7 => swapped_processes'[i] = swapped_processes[i]
  /\ current_step' = 0 => action' = NoAction
  /\ current_step' \in {0, current_step + 1}

\* C25: every step adds exactly 1 to the step counter and works on the table
\* and the backups it finds, never on fresh ones, also when the step before
\* it returned terminated = true; the counter (info.step) counts the steps
\* since the last reset, and only reset sets it to 0.
C25_NoAutoReset == [][CounterStep]_vars

\* a step was made after a step that had returned terminated = true, and the
\* counter went on counting
C25_Witness ==
  /\ Stepped
  /\ before.current_step >= 1
  /\ Terminated(before.system_stats)
  /\ current_step = before.current_step + 1
  /\ np_random # Unseeded

\* ---------------------------------------------------------- render and close
RenderSteps == 1

\* the renderer class render() picks for a style
RendererOf(style) == IF style \in {"retro", "anime"} THEN style ELSE "cyberpunk"

\* the draws of one frame: CyberpunkRenderer._draw_system_panel draws
\* np.random.rand() and, when it is below 0.1, np.random.randint(-1, 2);
\* the other renderers draw nothing
FrameDraws(style, pos) ==
  IF style = "cyberpunk" THEN (IF RandBelow(Sample(pos), 10) THEN 2 ELSE 1) ELSE 0

\* render() with the global stream at pos; quit: the user closes the window
\* during this frame (pygame.QUIT), which makes the renderer drop its screen.
\* A renderer whose screen is gone fails on self.screen.fill.
render(e, pos, quit) ==
  IF e.render_mode # Human
    THEN [env |-> [e EXCEPT !.raised = NoError, !.call = "render"], rng |-> pos]
    ELSE LET r == IF e.renderer = NoRenderer
                    THEN [style |-> RendererOf(e.renderer_style), screen |-> TRUE]
                    ELSE e.renderer
         IN IF ~r.screen
              THEN [env |-> [e EXCEPT !.renderer = r,
                                      !.raised = AttributeError,
                                      !.call = "render"],
                    rng |-> pos]
              ELSE [env |-> [e EXCEPT !.renderer = [r EXCEPT !.screen = ~quit],
                                      !.raised = NoError,
                                      !.call = "render"],
                    rng |-> Advance(pos, FrameDraws(r.style, pos))]

\* a faulty close, which closes the window and keeps the renderer
close_keeps_renderer(e) ==
  [e EXCEPT !.renderer = IF e.renderer = NoRenderer THEN NoRenderer
                         ELSE [e.renderer EXCEPT !.screen = FALSE],
            !.raised = NoError,
            !.call = "close"]

\* close()
close(e) == [e EXCEPT !.renderer = NoRenderer, !.raised = NoError, !.call = "close"]

\* RamSimEnv(k, render_mode, renderer_style), the global generator at the
\* start of the tape: the frames of the cyberpunk renderer move it
InitRender ==
  /\ k \in 1..MaxK
  /\ process_table = NewEnv(k).process_table
  /\ swapped_processes = NewEnv(k).swapped_processes
  /\ system_stats = NewEnv(k).system_stats
  /\ current_step = NewEnv(k).current_step
  /\ np_random = NewEnv(k).np_random
  /\ action = NewEnv(k).action
  /\ before = NewEnv(k).before
  /\ local_reward = NewEnv(k).local_reward
  /\ terminated = NewEnv(k).terminated
  /\ truncated = NewEnv(k).truncated
  /\ raised = NoError
  /\ reward = 0
  /\ render_mode \in RenderModes
  /\ renderer_style \in RendererStyles
  /\ renderer = NoRenderer
  /\ call = "__init__"
  /\ np_rng = 0
  /\ env2 = NewEnv(k)
  /\ same_calls = TRUE
  /\ twin = NewEnv(k)
  /\ np_rng_twin = 0

\* env.reset(seed) on the fresh instance
RenderReset ==
  /\ np_random = Unseeded
  /\ ~ResetRaises(k, np_rng)
  /\ \E seed \in Seeds :
       LET r == reset(Self, seed, np_rng) IN
       /\ Becomes(r.env)
       /\ np_rng' = r.rng
  /\ UNCHANGED Others

\* env.step(a): all slots No-op, or all slots Swap-out
RenderStep ==
  /\ np_random # Unseeded
  /\ current_step < RenderSteps
  /\ \E a \in {AllNoop, [i \in Slots(k) |-> 1]} :
       LET r == step(Self, a, np_rng) IN
       /\ Becomes(r.env)
       /\ np_rng' = r.rng
  /\ UNCHANGED Others

\* env.render()
Render ==
  /\ np_random # Unseeded
  /\ \E quit \in BOOLEAN :
       LET r == render(Self, np_rng, quit) IN
       /\ Becomes(r.env)
       /\ np_rng' = r.rng
  /\ UNCHANGED Others

\* env.close()
Close ==
  /\ np_random # Unseeded
  /\ Becomes(close(Self))
  /\ UNCHANGED <<np_rng, env2, same_calls, twin, np_rng_twin>>

NextRender == RenderReset \/ RenderStep \/ Render \/ Close

SpecRender == InitRender /\ [][NextRender]_vars

\* what a call of render or close leaves alone, and what it does to the
\* renderer reference
RenderCloseStep ==
  /\ call' \in {"render", "close"} =>
       /\ process_table' = process_table
       /\ swapped_processes' = swapped_processes
       /\ system_stats' = system_stats
       /\ current_step' = current_step
  /\ (call' = "render" /\ render_mode # Human) =>
       /\ renderer = NoRenderer
       /\ renderer' = NoRenderer
  /\ call' = "close" => renderer' = NoRenderer

\* C26: render and close never change process_table, the swap backups,
\* system_stats or current_step; with a render_mode other than 'human' render
\* creates no renderer, and after close the renderer reference is None in
\* every mode.
C26_RenderCloseFrame == [][RenderCloseStep]_vars

\* close was called on an instance in 'human' mode after a step that left a
\* swap backup
C26_Witness ==
  /\ call = "close"
  /\ render_mode = Human
  /\ renderer = NoRenderer
  /\ current_step = 1
  /\ \E i \in Slots(k) : swapped_processes[i].ram > 0

\* ------------------------------------------- the telemetry the handlers read
\* the ram_usage a handler of the last step would have read, had the
\* telemetry been recomputed after the handlers of the slots before slot j
RunningRamUsage(j) ==
  LET H == HandlerPhase(before.process_table, before.swapped_processes,
                        before.system_stats, action, j - 1)
  IN update_system_stats(H.pt, k).ram_usage

\* C27: the handlers of a step all read the system_stats the step started
\* with.  A Swap-in of a Swapped slot is accepted exactly when the ram_usage
\* of the step's start plus the backup's ram is at most 1.0, and a Resume of
\* a Suspended slot exactly when that ram_usage plus twice the slot's ram is
\* at most 1.0, whatever the handlers of earlier slots did to the table.
C27_HandlersReadStaleStats ==
  Stepped =>
    \A j \in Slots(k) :
      /\ (action[j] = 2 /\ before.process_table[j].state = Swapped) =>
           ((swapped_processes[j] = Zero /\ process_table[j].state # Swapped)
              <=> before.system_stats.ram_usage + before.swapped_processes[j].ram <= Scale)
      /\ (action[j] = 4 /\ before.process_table[j].state = Suspended) =>
           (process_table[j].state # Suspended
              <=> before.system_stats.ram_usage + 2 * before.process_table[j].ram <= Scale)

\* an earlier slot was killed or swapped out in the step, the recomputed
\* ram_usage would have let the later slot's Swap-in pass, and the Swap-in
\* was rejected on the ram_usage of the step's start
C27_Witness ==
  /\ Stepped
  /\ \E i, j \in Slots(k) :
       /\ i < j
       /\ action[i] \in {0, 1}
       /\ before.process_table[i].state = Running
       /\ action[j] = 2
       /\ before.process_table[j].state = Swapped
       /\ RunningRamUsage(j) + before.swapped_processes[j].ram <= Scale
       /\ before.system_stats.ram_usage + before.swapped_processes[j].ram > Scale
       /\ process_table[j].state = Swapped
       /\ swapped_processes[j] = before.swapped_processes[j]

\* ------------------------------------------------ OOM guards, slot by slot
\* the table's ram plus the 0.10 base load when the handler loop of the last
\* step had finished
PostHandlerRam == TotalRam(LastHandlerPhase.pt, k)

\* slot j passed the guard of Swap-in or of Resume in the last step
PassedGuard(j) ==
  \/ /\ action[j] = 2
     /\ before.process_table[j].state = Swapped
     /\ before.system_stats.ram_usage + before.swapped_processes[j].ram <= Scale
     /\ swapped_processes[j] = Zero
  \/ /\ action[j] = 4
     /\ before.process_table[j].state = Suspended
     /\ before.system_stats.ram_usage + 2 * before.process_table[j].ram <= Scale
     /\ process_table[j].state # Suspended

\* C28: the OOM guards are evaluated slot by slot against the ram_usage of
\* the step's start.  When exactly one slot receives a Swap-in that is
\* accepted and every other slot a No-op, the table's ram plus the 0.10 base
\* load after the handler loop is at most 1.0.  (That two slots can pass
\* their guards in one step with a total above 1.0 is a reachable state:
\* C28_Witness.)
C28_SingleSwapInFits ==
  Stepped =>
    \A j \in Slots(k) :
      (/\ action[j] = 2
       /\ \A i \in Slots(k) \ {j} : action[i] = 7
       /\ before.process_table[j].state = Swapped
       /\ swapped_processes[j] = Zero)
      => /\ PassedGuard(j)
         /\ LastHandlerPhase.pt[j].state = Running
         /\ LastHandlerPhase.pt[j].ram = before.swapped_processes[j].ram
         /\ PostHandlerRam <= Scale

\* two slots passed their guards in one step, and the table's ram plus the
\* base load after the handler loop exceeds 1.0
C28_Witness ==
  /\ Stepped
  /\ \E i, j \in Slots(k) :
       /\ i # j
       /\ PassedGuard(i)
       /\ PassedGuard(j)
  /\ PostHandlerRam > Scale

\* ---------------------------------------------------------------- the reward
\* C29: the reward a step returns is the sum of the k local handler rewards
\* plus 0.4 * stability + 0.2 * (1 - power) * 2 + 0.3 * qos + 0.1 * thrash,
\* evaluated on the table and the telemetry the step ends with (after
\* dynamics and spawn): stability is -10 if ram_usage >= 0.9 and 1 otherwise,
\* qos is the sum of the priorities of the Running slots alone, thrash is
\* -(swap_usage + page_fault) * 5.  In units of 1/(RewardSub * Scale).
C29_Reward ==
  Stepped =>
    LET stability == IF system_stats.ram_usage >= Pct(90) THEN -10 ELSE 1
        running == {i \in Slots(k) : process_table[i].state = Running}
        qos == Sum([i \in Slots(k) |->
                      IF i \in running THEN process_table[i].priority ELSE 0], k)
        thrash == -(system_stats.swap_usage + system_stats.page_fault) * 5
    IN /\ local_reward = LastHandlerPhase.r
       /\ reward = RewardSub * local_reward
                     + 40 * Scale * stability
                     + 4 * (10 * Scale - system_stats.power)
                     + 30 * qos
                     + 10 * thrash
       /\ system_stats = update_system_stats(process_table, k)

\* a step ended with a Running slot and a Suspended or Swapped slot that
\* both have a priority, under memory pressure
C29_Witness ==
  /\ Stepped
  /\ system_stats.ram_usage >= Pct(90)
  /\ \E i, j \in Slots(k) :
       /\ process_table[i].state = Running
       /\ process_table[i].priority > 0
       /\ process_table[j].state \in {Suspended, Swapped}
       /\ process_table[j].priority > 0
  /\ local_reward # 0

\* ------------------------------------------------------- respawned slots
\* slot i was Killed when the spawn pass of the last step ran, and the pass
\* respawned it
Respawned(i) ==
  /\ LastHandlerPhase.pt[i].state = Killed
  /\ process_table[i].state = Running

\* C30: a slot respawned by the spawn pass is Running with its fields inside
\* the ranges of one of the four profiles of reset.
C30_SpawnProfileRanges ==
  Stepped =>
    \A i \in Slots(k) :
      Respawned(i) =>
        \/ InHeavy(process_table[i])
        \/ InLeaky(process_table[i])
        \/ InActive(process_table[i])
        \/ InIdle(process_table[i])

\* ------------------------------------------- what dynamics and spawn touch
\* the table of the last step after its dynamics pass
LastDynamics ==
  apply_process_dynamics(LastHandlerPhase.pt, k, before.np_rng)

\* C31: the dynamics pass changes only slots that are Running when it runs,
\* the spawn pass only slots that are Killed when it runs.  A slot that is
\* Suspended or Swapped after the handler loop has the same fields and the
\* same backup at the end of the step; a slot that starts a step Suspended or
\* Swapped ends it Killed only if it received Kill, or if a handler of the
\* step made it Running first (random termination hits Running slots only).
C31_PassesFrame ==
  Stepped =>
    /\ process_table = spawn_new_process(LastDynamics.pt, k, LastDynamics.rng).pt
    /\ swapped_processes = LastHandlerPhase.sw
    /\ \A i \in Slots(k) :
         /\ LastHandlerPhase.pt[i].state # Running =>
              LastDynamics.pt[i] = LastHandlerPhase.pt[i]
         /\ LastDynamics.pt[i].state # Killed =>
              process_table[i] = LastDynamics.pt[i]
         /\ LastHandlerPhase.pt[i].state \in {Suspended, Swapped} =>
              /\ process_table[i] = LastHandlerPhase.pt[i]
              /\ swapped_processes[i] = LastHandlerPhase.sw[i]
         /\ (/\ before.process_table[i].state \in {Suspended, Swapped}
             /\ process_table[i].state = Killed) =>
              \/ action[i] = 0
              \/ LastHandlerPhase.pt[i].state = Running

\* the dynamics pass terminated one slot and the spawn pass refilled another
\* in a step that left a Swapped slot with its backup alone
C31_Witness ==
  /\ Stepped
  /\ \E i, j \in Slots(k) :
       /\ i # j
       /\ LastHandlerPhase.pt[i].state = Swapped
       /\ process_table[i].state = Swapped
       /\ swapped_processes[i].ram > 0
       /\ \/ LastHandlerPhase.pt[j].state = Running /\ LastDynamics.pt[j].state = Killed
          \/ LastHandlerPhase.pt[j].state = Killed /\ process_table[j].state = Running

\* ------------------------------------------------ the dynamics pass alone
\* One slot under all-No-op steps.  Between two calls the global generator
\* may have been used by anyone (another instance, a renderer), so every
\* step finds it at a position of its own.
DynamicsSteps == 4

InitDynamics ==
  /\ k = 1
  /\ process_table = NewEnv(1).process_table
  /\ swapped_processes = NewEnv(1).swapped_processes
  /\ system_stats = NewEnv(1).system_stats
  /\ current_step = NewEnv(1).current_step
  /\ np_random = NewEnv(1).np_random
  /\ action = NewEnv(1).action
  /\ before = NewEnv(1).before
  /\ local_reward = NewEnv(1).local_reward
  /\ terminated = NewEnv(1).terminated
  /\ truncated = NewEnv(1).truncated
  /\ Headless
  /\ np_rng \in 0..(Period - 1)
  /\ env2 = NewEnv(1)
  /\ same_calls = TRUE
  /\ twin = NewEnv(1)
  /\ np_rng_twin = 0

\* env.step([7] * k), the global generator standing at pos
DynamicsStep ==
  /\ np_random # Unseeded
  /\ current_step < DynamicsSteps
  /\ \E pos \in 0..(Period - 1) :
       LET r == step(Self, AllNoop, pos) IN
       /\ Becomes(r.env)
       /\ np_rng' = r.rng
  /\ UNCHANGED Others

\* the reset is env.reset(seed) on the fresh instance
NextDynamics == ArgsReset \/ DynamicsStep

SpecDynamics == InitDynamics /\ [][NextDynamics]_vars

\* slot i was Running when the dynamics pass of the last step ran and was
\* not terminated by it
Evolved(i) ==
  /\ LastHandlerPhase.pt[i].state = Running
  /\ LastDynamics.pt[i].state = Running
  /\ process_table[i] = LastDynamics.pt[i]

\* q.ram is p.ram plus an amount in [0.01, 0.06], capped at 1.0
LeakGrowth(p, q) ==
  /\ q.ram >= p.ram
  /\ q.ram <= Scale
  /\ \/ Pct(1) <= q.ram - p.ram /\ q.ram - p.ram <= Pct(6)
     \/ q.ram = Scale /\ p.ram + Pct(6) >= Scale

\* C32 as stated: a Running slot the dynamics pass does not terminate ends
\* with cpu in [0.01, 0.95]; with the leak signature (ram > 0.6 and, before
\* the jitter, cpu < 0.1) its ram grows by an amount in [0.01, 0.06], capped
\* at 1.0, and never decreases; otherwise its ram changes by at most 0.02 and
\* ends in [0.01, 0.95].
C32_DynamicsAsStated ==
  Stepped =>
    \A i \in Slots(k) :
      Evolved(i) =>
        LET p == LastHandlerPhase.pt[i]
            q == process_table[i]
            leaks == p.ram > Pct(60) /\ p.cpu < Pct(10)
        IN /\ Pct(1) <= q.cpu /\ q.cpu <= Pct(95)
           /\ leaks => LeakGrowth(p, q)
           /\ ~leaks =>
                /\ q.ram - p.ram <= Pct(2)
                /\ p.ram - q.ram <= Pct(2)
                /\ Pct(1) <= q.ram /\ q.ram <= Pct(95)

\* C32 amended: as above, but without the leak signature the ram ends at
\* clip(ram + j, 0.01, 0.95) with |j| <= 0.02: it changes by at most 0.02
\* only while it was at most 0.97; a ram above 0.95 (left by earlier leak
\* growth) is pulled down to at most 0.95, a drop of up to 0.05.
C32_Dynamics ==
  Stepped =>
    \A i \in Slots(k) :
      Evolved(i) =>
        LET p == LastHandlerPhase.pt[i]
            q == process_table[i]
            leaks == p.ram > Pct(60) /\ p.cpu < Pct(10)
        IN /\ Pct(1) <= q.cpu /\ q.cpu <= Pct(95)
           /\ leaks => LeakGrowth(p, q)
           /\ ~leaks =>
                /\ q.ram - p.ram <= Pct(2)
                /\ Pct(1) <= q.ram /\ q.ram <= Pct(95)
                /\ p.ram <= Pct(97) => p.ram - q.ram <= Pct(2)
                /\ p.ram > Pct(97) => (q.ram = Pct(95) /\ p.ram - q.ram <= Pct(5))

\* a slot whose ram had leaked above 0.97 lost the leak signature (its cpu
\* reached 0.1) and was pulled down to 0.95
C32_Witness ==
  /\ Stepped
  /\ \E i \in Slots(k) :
       /\ Evolved(i)
       /\ ~(LastHandlerPhase.pt[i].ram > Pct(60) /\ LastHandlerPhase.pt[i].cpu < Pct(10))
       /\ LastHandlerPhase.pt[i].ram > Pct(97)
       /\ process_table[i].ram = Pct(95)

\* ------------------------------------------------ renice of a Swapped slot
\* C33: a Renice-increase or Renice-decrease on a Swapped slot changes at
\* most the priority of the table row and leaves the backup as it was; an
\* accepted Swap-in gives the slot the priority of the backup, whatever the
\* table row showed, and its reward is computed from the backup's priority.
C33_ReniceWhileSwappedDiscarded ==
  Stepped =>
    \A i \in Slots(k) :
      LET p == before.process_table[i]
          b == before.swapped_processes[i]
          h == LastHandler(i)
          predicted == before.system_stats[RAM_USAGE_INDEX] + b.ram
      IN
      /\ (p.state = Swapped /\ action[i] \in {5, 6}) =>
           /\ h.sw[i] = b
           /\ swapped_processes[i] = b
           /\ h.pt[i] = [p EXCEPT !.priority = h.pt[i].priority]
           /\ process_table[i] = h.pt[i]
           /\ process_table[i].priority
                = (IF PreconditionFails(action[i], p) THEN p.priority
                   ELSE IF action[i] = 5 THEN Clip(p.priority + Pct(20), 0, Scale)
                   ELSE Clip(p.priority - Pct(20), 0, Scale))
      /\ (p.state = Swapped /\ action[i] = 2 /\ predicted <= Scale) =>
           /\ LastHandlerPhase.pt[i].priority = b.priority
           /\ LastHandlerPhase.pt[i].state = Running
           /\ h.r = 5 * b.priority - (IF predicted >= Pct(80) THEN R(15) ELSE 0)
           /\ process_table[i] = Zero \/ process_table[i].priority = b.priority

\* a slot swapped out, reniced while Swapped and then swapped in: it runs
\* again with the priority of the backup
C33_Witness ==
  /\ Stepped
  /\ \E i \in Slots(k) :
       /\ action[i] = 2
       /\ before.process_table[i].state = Swapped
       /\ before.process_table[i].priority # before.swapped_processes[i].priority
       /\ process_table[i].state = Running
       /\ process_table[i].priority = before.swapped_processes[i].priority
       /\ LastHandler(i).r >= 5 * before.swapped_processes[i].priority - R(15)
       /\ LastHandler(i).r # 5 * before.process_table[i].priority
       /\ LastHandler(i).r # 5 * before.process_table[i].priority - R(15)

\* ---------------------------------------------------- Kill of a Swapped slot
\* C34: Kill on a Swapped slot returns -2 whatever ram, cpu and priority its
\* backup holds, since the table row it rates has ram 0, and it zeroes both
\* the slot and its backup.
C34_KillSwapped ==
  (Called(0) /\ SlotBefore.state = Swapped) =>
    /\ SlotBefore.ram = 0
    /\ local_reward = R(-2)
    /\ SlotAfter = Zero
    /\ BackupAfter = Zero

\* a Swapped slot is killed whose backup is the ideal target of a Kill
C34_Witness ==
  /\ Called(0)
  /\ SlotBefore.state = Swapped
  /\ BackupBefore.ram > Pct(40)
  /\ BackupBefore.priority <= Pct(20)
  /\ BackupBefore.cpu < Pct(10)
  /\ local_reward = R(-2)
  /\ SlotAfter = Zero
  /\ BackupAfter = Zero

\* ------------------------------------------- state changes across one step
\* C35: across one step a slot ends Suspended only if it started the step
\* Running or Suspended, and ends Swapped only if it started Running,
\* Suspended or Swapped: a Swapped slot never becomes Suspended, and a Killed
\* slot becomes neither Suspended nor Swapped.
C35_StepTransitions ==
  Stepped =>
    \A i \in Slots(k) :
      /\ process_table[i].state = Suspended =>
           before.process_table[i].state \in {Running, Suspended}
      /\ process_table[i].state = Swapped =>
           before.process_table[i].state \in {Running, Suspended, Swapped}

\* one step of two slots: a Running slot ends Suspended, a Suspended slot
\* ends Swapped
C35_Witness ==
  /\ Stepped
  /\ \E i, j \in Slots(k) :
       /\ before.process_table[i].state = Running
       /\ process_table[i].state = Suspended
       /\ before.process_table[j].state = Suspended
       /\ process_table[j].state = Swapped

\* ------------------------------------------------------ the guard of Resume
\* A two-slot instance whose caller goes on after a step has raised: steps on
\* well-formed vectors <<code, 7>> and on the short vector <<code>>, which
\* runs the handler of slot 1 and raises IndexError at slot 2.
RecoverSteps == 4

InitRecover ==
  /\ k = 2
  /\ process_table = NewEnv(2).process_table
  /\ swapped_processes = NewEnv(2).swapped_processes
  /\ system_stats = NewEnv(2).system_stats
  /\ current_step = NewEnv(2).current_step
  /\ np_random = NewEnv(2).np_random
  /\ action = NewEnv(2).action
  /\ before = NewEnv(2).before
  /\ local_reward = NewEnv(2).local_reward
  /\ terminated = NewEnv(2).terminated
  /\ truncated = NewEnv(2).truncated
  /\ Headless
  /\ np_rng \in 0..(Period - 1)
  /\ env2 = NewEnv(2)
  /\ same_calls = TRUE
  /\ twin = NewEnv(2)
  /\ np_rng_twin = 0

\* env.step([code, 7]), or env.step([code]), which raises IndexError after
\* the handler of slot 1, the caller catching it; code is one of Swap-out,
\* Swap-in, Suspend, Resume and No-op
RecoverStep ==
  /\ np_random # Unseeded
  /\ current_step < RecoverSteps
  /\ \E code \in {1, 2, 3, 4, 7} :
       \E a \in {<<code, 7>>, <<code>>} :
         LET r == step_any(Self, a, np_rng) IN
         /\ Becomes(r.env)
         /\ np_rng' = r.rng
  /\ UNCHANGED Others

\* the reset is env.reset(seed) on the fresh instance
NextRecover == ArgsReset \/ RecoverStep

SpecRecover == InitRecover /\ [][NextRecover]_vars

\* what C36 says of slot i in the last step
ResumeGuard(i) ==
  LET p == before.process_table[i]
      ram_usage == before.system_stats[RAM_USAGE_INDEX]
      accepted == action[i] = 4 /\ LastHandler(i).pt[i].state = Running
  IN
  p.state = Suspended =>
    /\ ram_usage >= Min(Scale, p.ram + Pct(10))
    /\ accepted => (ram_usage + 2 * p.ram <= Scale /\ p.ram <= Pct(30))
    /\ (action[i] = 4 /\ ~accepted) =>
         (ram_usage + 2 * p.ram > Scale /\ LastHandler(i).r = R(-10))
    /\ p.ram > Pct(30) =>
         /\ action[i] = 4 =>
              (LastHandler(i).r = R(-10) /\ process_table[i] = p)
         /\ process_table[i].state # Suspended => action[i] \in {0, 1}
         /\ process_table[i].state = Suspended => process_table[i].ram = p.ram

TripSteps == 4

\* env.step([3, 7]) or env.step([7, 7]) while slot 1 is not swapped out
TripSuspend ==
  /\ np_random # Unseeded
  /\ current_step < TripSteps
  /\ process_table[1].state # Swapped
  /\ \E code \in {3, 7} :
       LET r == step(Self, <<code, 7>>, np_rng) IN
       /\ Becomes(r.env)
       /\ np_rng' = r.rng
  /\ UNCHANGED Others

\* twin = copy.deepcopy(env); env.step([1, 7]) on a Running or Suspended slot
TripSwapOut ==
  /\ np_random # Unseeded
  /\ current_step < TripSteps
  /\ process_table[1].state \in {Running, Suspended}
  /\ LET r == step(Self, <<1, 7>>, np_rng) IN
     /\ Becomes(r.env)
     /\ np_rng' = r.rng
  /\ twin' = Self
  /\ np_rng_twin' = np_rng
  /\ UNCHANGED <<env2, same_calls>>

\* env.step([7, 7]) while slot 1 is swapped out
TripWait ==
  /\ np_random # Unseeded
  /\ current_step < TripSteps
  /\ process_table[1].state = Swapped
  /\ LET r == step(Self, <<7, 7>>, np_rng) IN
     /\ Becomes(r.env)
     /\ np_rng' = r.rng
  /\ UNCHANGED Others

\* env.step([2, 7]) while slot 1 is swapped out
TripSwapIn ==
  /\ np_random # Unseeded
  /\ current_step < TripSteps
  /\ process_table[1].state = Swapped
  /\ LET r == step(Self, <<2, 7>>, np_rng) IN
     /\ Becomes(r.env)
     /\ np_rng' = r.rng
  /\ UNCHANGED Others

\* the reset is env.reset(seed) on the fresh instance
NextTrip == ArgsReset \/ TripSuspend \/ TripSwapOut \/ TripWait \/ TripSwapIn

\* the fresh two-slot instance of InitRecover
SpecTrip == InitRecover /\ [][NextTrip]_vars

\* C37: an accepted Swap-in of a slot that was swapped out while Suspended
\* leaves it Running, not Suspended, with the halved ram and the cpu 0 it had
\* when swapped out, so that the ram Suspend removed does not come back; an
\* accepted Swap-in of a slot that was swapped out while Running, with no
\* other action on the slot in between, leaves it at the end of the Swap-in
\* handler with exactly the ram, cpu, priority and state it had.
C37_SwapRoundTrip ==
  (/\ Stepped
   /\ action[1] = 2
   /\ before.process_table[1].state = Swapped
   /\ before.system_stats[RAM_USAGE_INDEX] + before.swapped_processes[1].ram <= Scale) =>
    LET orig == twin.process_table[1]
        back == LastHandlerPhase.pt[1]
    IN
    /\ orig.state \in {Running, Suspended}
    /\ orig.state = Suspended =>
         /\ back = Proc(orig.ram, 0, orig.priority, Running)
         /\ orig.cpu = 0
         /\ back.state # orig.state
         /\ back.ram < 2 * orig.ram
         /\ process_table[1].state # Suspended
    /\ orig.state = Running => back = orig
    /\ LastHandlerPhase.sw[1] = Zero

\* a slot suspended, swapped out and swapped in again runs with half its ram
C37_Witness ==
  /\ Stepped
  /\ action[1] = 2
  /\ before.process_table[1].state = Swapped
  /\ before.system_stats[RAM_USAGE_INDEX] + before.swapped_processes[1].ram <= Scale
  /\ twin.process_table[1].state = Suspended
  /\ twin.process_table[1].ram >= Pct(20)
  /\ LastHandlerPhase.pt[1] = [twin.process_table[1] EXCEPT !.state = Running]
  /\ process_table[1].state = Running

\* ------------------------------------------------- terminated is not latched
\* C38: the terminated flag is not latched: a step made after a step that
\* returned terminated = true, with no reset in between, is carried out and
\* returns terminated = false whenever the ram_usage it ends with is below
\* 1.0.
C38_TerminatedNotLatched ==
  [][(terminated /\ call' = "step") =>
       /\ raised' = NoError
       /\ current_step' = current_step + 1
       /\ system_stats' = update_system_stats(process_table', k)
       /\ terminated' <=> (system_stats'[RAM_USAGE_INDEX] >= Scale)
       /\ system_stats'[RAM_USAGE_INDEX] < Scale => ~terminated']_vars

\* after a step that returned terminated = true, a step with a Kill or a
\* Swap-out returned terminated = false
C38_Witness ==
  /\ Stepped
  /\ before.current_step >= 1
  /\ Terminated(before.system_stats)
  /\ \E i \in Slots(k) : action[i] \in {0, 1}
  /\ raised = NoError
  /\ ~terminated
  /\ system_stats[RAM_USAGE_INDEX] < Scale

\* ------------------------------------------------- a step that raises
\* C39: when step raises on a malformed vector (shorter than k, or with a
\* code >= 8 at slot j), the counter has been incremented and the handlers of
\* the slots before j have changed the table and the backups, each as a
\* handler alone changes its slot, while the slots from j on are as before;
\* dynamics, spawn and telemetry have not run: no random number was drawn and
\* system_stats is what it was before the call.
C39_FailedStepLeaves ==
  (call = "step" /\ raised = IndexError) =>
    LET BadIndex(i) == i > Len(action) \/ action[i] < -HandlerCount
                         \/ action[i] >= HandlerCount
        FailedAt == CHOOSE j \in Slots(k) :
                      BadIndex(j) /\ \A i \in 1..(j - 1) : ~BadIndex(i)
    IN
    /\ \E j \in Slots(k) : BadIndex(j)
    /\ current_step = before.current_step + 1
    /\ system_stats = before.system_stats
    /\ np_rng = before.np_rng
    /\ \A i \in Slots(k) :
         IF i < FailedAt
           THEN LET h == handlers(ListIndex(action[i]), before.process_table,
                                  before.swapped_processes, before.system_stats, i)
                IN /\ process_table[i] = h.pt[i]
                   /\ swapped_processes[i] = h.sw[i]
           ELSE /\ process_table[i] = before.process_table[i]
                /\ swapped_processes[i] = before.swapped_processes[i]

\* a step on a vector with code 8 at slot 2 has raised after killing slot 1:
\* the counter counts the call and system_stats still counts the killed slot
C39_Witness ==
  /\ call = "step"
  /\ raised = IndexError
  /\ k = 2
  /\ Len(action) = 2
  /\ action[2] >= HandlerCount
  /\ before.process_table[1].state = Running
  /\ process_table[1] = Zero
  /\ current_step = before.current_step + 1
  /\ system_stats = before.system_stats
  /\ system_stats # update_system_stats(process_table, k)

\* ---------------------------------------------------- the frame of a handler
\* C40: the handler called for slot i reads and writes only row i of the
\* process table and entry i of the backups: every other row and backup is
\* the same after the call as before it, what the handler makes of slot i
\* and what it returns do not change when the other rows are replaced, and
\* the handler phase gives the same table, backups and reward sum whatever
\* the order in which the slots are taken.
C40_HandlerFrame ==
  Stepped =>
    LET Reversed[n \in 0..k] ==
          IF n = 0 THEN Result(before.process_table, before.swapped_processes, 0)
          ELSE LET slot == k + 1 - n
                   h == handlers(action[slot], Reversed[n - 1].pt, Reversed[n - 1].sw,
                                 before.system_stats, slot)
               IN Result(h.pt, h.sw, Reversed[n - 1].r + h.r)
    IN
    /\ \A i \in Slots(k) :
         LET h == LastHandler(i)
             alone == handlers(action[i],
                               [j \in Slots(k) |-> IF j = i THEN before.process_table[j] ELSE Zero],
                               [j \in Slots(k) |-> IF j = i THEN before.swapped_processes[j] ELSE Zero],
                               before.system_stats, i)
         IN /\ \A j \in Slots(k) \ {i} :
                 /\ h.pt[j] = before.process_table[j]
                 /\ h.sw[j] = before.swapped_processes[j]
            /\ h.pt[i] = alone.pt[i]
            /\ h.sw[i] = alone.sw[i]
            /\ h.r = alone.r
            /\ LastHandlerPhase.pt[i] = h.pt[i]
            /\ LastHandlerPhase.sw[i] = h.sw[i]
    /\ Reversed[k] = LastHandlerPhase

\* a step of two slots whose handlers both changed their slot
C40_Witness ==
  /\ Stepped
  /\ k = 2
  /\ LastHandler(1).pt[1] # before.process_table[1]
  /\ LastHandler(2).pt[2] # before.process_table[2]
  /\ LastHandler(1).sw[1] # before.swapped_processes[1]
  /\ LastHandlerPhase.pt[1] = LastHandler(1).pt[1]
  /\ LastHandlerPhase.pt[2] = LastHandler(2).pt[2]

====
